---- MODULE Spec2Model ----
(***************************************************************************)
(* Transcription pipeline of the YouTube transcription service: the Bull   *)
(* queue job life cycle, the tiered executor registered with               *)
(* transcriptionQueue.process, and the helpers it calls (video-ID          *)
(* extraction, yt-dlp invocation and failure classification, audio         *)
(* download, speech-to-text, artifact upload).                             *)
(*                                                                         *)
(* JavaScript strings are sequences of one-character strings, so that      *)
(* substring tests, case folding and template literals are computed.       *)
(***************************************************************************)
EXTENDS Integers, Sequences, FiniteSets, TLC

(***************************************************************************)
(* Bounds of the model                                                     *)
(***************************************************************************)
\* number of jobs that are submitted
MaxJobs == 1
\* worker processes of the pool
MaxInstances == 2
\* number of jobs that are submitted to the pool of PoolSpec
MaxPoolJobs == 2
\* length of the text that follows the video URL in a submitted url
MaxSuffixLen == 1
\* number of query parameters of a watch URL
MaxParams == 2

(***************************************************************************)
(* Program constants                                                       *)
(***************************************************************************)
\* config.worker.maxAttempts (WORKER_MAX_ATTEMPTS, default '2')
maxAttempts == 2
\* config.worker.concurrency (WORKER_CONCURRENCY, default '1')
concurrency == 1
\* settings.maxStalledCount of the queue
maxStalledCount == 2

(***************************************************************************)
(* String literals of the source                                           *)
(***************************************************************************)
\* 'BOT_DETECTION'
T_BOT_DETECTION ==
  <<"B","O","T","_","D","E","T","E","C","T","I","O","N">>

\* 'COOKIES_EXPIRED'
T_COOKIES_EXPIRED ==
  <<"C","O","O","K","I","E","S","_","E","X","P","I","R","E","D">>

\* 'YouTube is blocking requests. Cookies may need to be refreshed.'
T_BotUserMessage ==
  <<"Y","o","u","T","u","b","e"," ","i","s"," ","b","l","o","c","k","i","n","g"," ","r","e","q","u","e","s","t","s","."," ","C","o","o","k","i","e","s"," ","m","a","y"," ","n","e","e","d"," ","t","o"," ","b","e"," ","r","e","f","r","e","s","h","e","d",".">>

\* 'YouTube session has expired. Please re-export cookies from Chrome.'
T_ExpiredUserMessage ==
  <<"Y","o","u","T","u","b","e"," ","s","e","s","s","i","o","n"," ","h","a","s"," ","e","x","p","i","r","e","d","."," ","P","l","e","a","s","e"," ","r","e","-","e","x","p","o","r","t"," ","c","o","o","k","i","e","s"," ","f","r","o","m"," ","C","h","r","o","m","e",".">>

\* ': '
T_ColonSpace ==
  <<":"," ">>

\* 'Whisper Tier is disabled and YouTube transcript not available'
T_WhisperDisabled ==
  <<"W","h","i","s","p","e","r"," ","T","i","e","r"," ","i","s"," ","d","i","s","a","b","l","e","d"," ","a","n","d"," ","Y","o","u","T","u","b","e"," ","t","r","a","n","s","c","r","i","p","t"," ","n","o","t"," ","a","v","a","i","l","a","b","l","e">>

\* 'Could not extract video ID from URL: '
T_NoVideoId ==
  <<"C","o","u","l","d"," ","n","o","t"," ","e","x","t","r","a","c","t"," ","v","i","d","e","o"," ","I","D"," ","f","r","o","m"," ","U","R","L",":"," ">>

\* 'Invalid URL: must be a non-empty string'
T_InvalidUrl ==
  <<"I","n","v","a","l","i","d"," ","U","R","L",":"," ","m","u","s","t"," ","b","e"," ","a"," ","n","o","n","-","e","m","p","t","y"," ","s","t","r","i","n","g">>

\* 'yt-dlp '
T_YtDlp ==
  <<"y","t","-","d","l","p"," ">>

\* '"'
T_Quote ==
  <<"\"">>

\* '\n'
T_NL ==
  <<"\n">>

\* 'youtu.be/'
T_YoutuBe ==
  <<"y","o","u","t","u",".","b","e","/">>

\* 'youtube.com/watch?'
T_WatchQ ==
  <<"y","o","u","t","u","b","e",".","c","o","m","/","w","a","t","c","h","?">>

\* 'v='
T_VEq ==
  <<"v","=">>

\* 'youtube.com/embed/'
T_Embed ==
  <<"y","o","u","t","u","b","e",".","c","o","m","/","e","m","b","e","d","/">>

\* 'youtube.com/v/'
T_SlashV ==
  <<"y","o","u","t","u","b","e",".","c","o","m","/","v","/">>

\* 'https://www.youtube.com/watch?v=dQw4w9WgXcQ'
U_Watch ==
  <<"h","t","t","p","s",":","/","/","w","w","w",".","y","o","u","t","u","b","e",".","c","o","m","/","w","a","t","c","h","?","v","=","d","Q","w","4","w","9","W","g","X","c","Q">>

\* 'https://example.com/clip'
U_Invalid ==
  <<"h","t","t","p","s",":","/","/","e","x","a","m","p","l","e",".","c","o","m","/","c","l","i","p">>

\* ' '
T_Space ==
  <<" ">>

\* "'"
T_SQuote ==
  <<"'">>

\* '/app/cookies/youtube_cookies.txt'
COOKIES_PATH ==
  <<"/","a","p","p","/","c","o","o","k","i","e","s","/","y","o","u","t","u","b","e","_","c","o","o","k","i","e","s",".","t","x","t">>

\* 'transcript.txt'
T_TranscriptTxt ==
  <<"t","r","a","n","s","c","r","i","p","t",".","t","x","t">>

\* 'transcript.json'
T_TranscriptJson ==
  <<"t","r","a","n","s","c","r","i","p","t",".","j","s","o","n">>

\* 'python3 -c "... model.transcribe(\''
T_WhisperCmdHead ==
  <<"p","y","t","h","o","n","3"," ","-","c"," ","\"",".",".","."," ","m","o","d","e","l",".","t","r","a","n","s","c","r","i","b","e","(","'">>

(***************************************************************************)
(* String primitives of JavaScript used by the source                      *)
(***************************************************************************)
UpperChars == <<"A","B","C","D","E","F","G","H","I","J","K","L","M",
                "N","O","P","Q","R","S","T","U","V","W","X","Y","Z">>
LowerChars == <<"a","b","c","d","e","f","g","h","i","j","k","l","m",
                "n","o","p","q","r","s","t","u","v","w","x","y","z">>
Digits == <<"0","1","2","3","4","5","6","7","8","9">>

Range(s) == {s[i] : i \in DOMAIN s}

\* the lower-case form of the upper-case letters
LowerOf ==
    ("A" :> "a") @@ ("B" :> "b") @@ ("C" :> "c") @@ ("D" :> "d") @@ ("E"
    :> "e") @@ ("F" :> "f") @@ ("G" :> "g") @@ ("H" :> "h") @@ ("I" :>
    "i") @@ ("J" :> "j") @@ ("K" :> "k") @@ ("L" :> "l") @@ ("M" :> "m")
    @@ ("N" :> "n") @@ ("O" :> "o") @@ ("P" :> "p") @@ ("Q" :> "q") @@
    ("R" :> "r") @@ ("S" :> "s") @@ ("T" :> "t") @@ ("U" :> "u") @@ ("V"
    :> "v") @@ ("W" :> "w") @@ ("X" :> "x") @@ ("Y" :> "y") @@ ("Z" :>
    "z")

\* the lower-case form of one character
LowerChar(c) == IF c \in DOMAIN LowerOf THEN LowerOf[c] ELSE c

\* String.prototype.toLowerCase
toLowerCase(s) == <<>> \o [i \in 1..Len(s) |-> LowerChar(s[i])]

\* the substring p occurs in s at position i (1-based)
StartsAt(s, i, p) ==
  /\ i >= 1
  /\ i + Len(p) - 1 <= Len(s)
  /\ \A k \in 1..Len(p) : s[i + k - 1] = p[k]

\* String.prototype.includes
includes(s, p) ==
  LET n == Len(p)
  IN \E i \in 1..(Len(s) - n + 1) : \A k \in 1..n : s[i + k - 1] = p[k]

\* String.prototype.startsWith / endsWith
startsWith(s, p) == StartsAt(s, 1, p)
endsWith(s, p) == StartsAt(s, Len(s) - Len(p) + 1, p)

\* \s of a regular expression, restricted to the characters of the model
IsSpace(c) == c \in {" ", "\n", "\t"}

\* String.prototype.trim
RECURSIVE trimStart(_)
trimStart(s) == IF s # <<>> /\ IsSpace(Head(s)) THEN trimStart(Tail(s)) ELSE s
RECURSIVE trimEnd(_)
trimEnd(s) ==
  IF s # <<>> /\ IsSpace(s[Len(s)]) THEN trimEnd(SubSeq(s, 1, Len(s) - 1)) ELSE s
trim(s) == trimEnd(trimStart(s))

\* decimal rendering of a natural number in a template literal
RECURSIVE NatToString(_)
NatToString(n) ==
  IF n < 10 THEN <<Digits[n + 1]>>
  ELSE NatToString(n \div 10) \o <<Digits[(n % 10) + 1]>>

(***************************************************************************)
(* utils/videoId.js                                                        *)
(***************************************************************************)
\* the character class [a-zA-Z0-9_-]
IdChars == Range(UpperChars) \cup Range(LowerChars) \cup Range(Digits) \cup {"_", "-"}
IsIdChar(c) == c \in IdChars

\* ([a-zA-Z0-9_-]{11}) matches at position i
IdAt(s, i) ==
  /\ i >= 1
  /\ i + 10 <= Len(s)
  /\ \A k \in 0..10 : IsIdChar(s[i + k])

\* url.match(/youtu\.be\/([a-zA-Z0-9_-]{11})/): positions of the capture
shortMatch(s) ==
  {i + Len(T_YoutuBe) : i \in {k \in 1..Len(s) :
       StartsAt(s, k, T_YoutuBe) /\ IdAt(s, k + Len(T_YoutuBe))}}

\* the alternative youtube\.com\/watch\?.*v= started at i: ends of ".*v=",
\* "." matching any character but a line terminator
watchCaptures(s, i) ==
  IF ~StartsAt(s, i, T_WatchQ) THEN {} ELSE
  {j + Len(T_VEq) : j \in {k \in (i + Len(T_WatchQ))..Len(s) :
       /\ \A m \in (i + Len(T_WatchQ))..(k - 1) : s[m] # "\n"
       /\ StartsAt(s, k, T_VEq)
       /\ IdAt(s, k + Len(T_VEq))}}

\* the alternative youtube\.com\/embed\/ started at i
embedCaptures(s, i) ==
  IF StartsAt(s, i, T_Embed) /\ IdAt(s, i + Len(T_Embed))
  THEN {i + Len(T_Embed)} ELSE {}

Max(S) == CHOOSE x \in S : \A y \in S : y <= x
Min(S) == CHOOSE x \in S : \A y \in S : x <= y

\* url.match(/(?:youtube\.com\/watch\?.*v=|youtube\.com\/embed\/)(...{11})/):
\* leftmost start, first alternative first, ".*" greedy
longMatch(s) ==
  LET starts == {i \in 1..Len(s) :
                   watchCaptures(s, i) # {} \/ embedCaptures(s, i) # {}}
  IN IF starts = {} THEN {}
     ELSE LET i == Min(starts)
          IN IF watchCaptures(s, i) # {} THEN {Max(watchCaptures(s, i))}
             ELSE embedCaptures(s, i)

\* url.match(/youtube\.com\/v\/([a-zA-Z0-9_-]{11})/)
vMatch(s) ==
  {i + Len(T_SlashV) : i \in {k \in 1..Len(s) :
       StartsAt(s, k, T_SlashV) /\ IdAt(s, k + Len(T_SlashV))}}

\* url.match(/^[a-zA-Z0-9_-]{11}$/)
bareMatch(s) == Len(s) = 11 /\ IdAt(s, 1)

Thrown(msg) == [ok |-> FALSE, message |-> msg]
Returned(v) == [ok |-> TRUE, value |-> v]

\* variant: the last pattern is not anchored
extractVideoId_bareUnanchored(url) ==
  IF url = <<>> THEN Thrown(T_InvalidUrl)
  ELSE LET u == trim(url)
       IN IF shortMatch(u) # {}
          THEN Returned(SubSeq(u, Min(shortMatch(u)), Min(shortMatch(u)) + 10))
          ELSE IF longMatch(u) # {}
          THEN Returned(SubSeq(u, Min(longMatch(u)), Min(longMatch(u)) + 10))
          ELSE IF vMatch(u) # {}
          THEN Returned(SubSeq(u, Min(vMatch(u)), Min(vMatch(u)) + 10))
          ELSE IF \E i \in DOMAIN u : IdAt(u, i)
          THEN Returned(SubSeq(u, Min({i \in DOMAIN u : IdAt(u, i)}),
                                  Min({i \in DOMAIN u : IdAt(u, i)}) + 10))
          ELSE Thrown(T_NoVideoId \o u)

\* extractVideoId(url) for a string url: the ID, or the Error it throws
extractVideoId(url) ==
  IF url = <<>> THEN Thrown(T_InvalidUrl)
  ELSE LET u == trim(url)
       IN IF shortMatch(u) # {}
          THEN Returned(SubSeq(u, Min(shortMatch(u)), Min(shortMatch(u)) + 10))
          ELSE IF longMatch(u) # {}
          THEN Returned(SubSeq(u, Min(longMatch(u)), Min(longMatch(u)) + 10))
          ELSE IF vMatch(u) # {}
          THEN Returned(SubSeq(u, Min(vMatch(u)), Min(vMatch(u)) + 10))
          ELSE IF bareMatch(u) THEN Returned(u)
          ELSE Thrown(T_NoVideoId \o u)

(***************************************************************************)
(* lib/youtube-downloader.js                                               *)
(***************************************************************************)
BOT_DETECTION_PATTERNS ==
  <<\* "Sign in to confirm you're not a bot"
    <<"S","i","g","n"," ","i","n"," ","t","o"," ","c","o","n","f","i","r","m"," ","y","o","u","'","r","e"," ","n","o","t"," ","a"," ","b","o","t">>,
    \* 'Sign in to confirm your age'
    <<"S","i","g","n"," ","i","n"," ","t","o"," ","c","o","n","f","i","r","m"," ","y","o","u","r"," ","a","g","e">>,
    \* 'This video is unavailable'
    <<"T","h","i","s"," ","v","i","d","e","o"," ","i","s"," ","u","n","a","v","a","i","l","a","b","l","e">>,
    \* 'Video unavailable'
    <<"V","i","d","e","o"," ","u","n","a","v","a","i","l","a","b","l","e">>,
    \* 'Private video'
    <<"P","r","i","v","a","t","e"," ","v","i","d","e","o">>,
    \* "confirm you're not a bot"
    <<"c","o","n","f","i","r","m"," ","y","o","u","'","r","e"," ","n","o","t"," ","a"," ","b","o","t">>,
    \* 'bot detection'
    <<"b","o","t"," ","d","e","t","e","c","t","i","o","n">>,
    \* 'HTTP Error 403'
    <<"H","T","T","P"," ","E","r","r","o","r"," ","4","0","3">>,
    \* 'HTTP Error 429'
    <<"H","T","T","P"," ","E","r","r","o","r"," ","4","2","9">>,
    \* 'Too Many Requests'
    <<"T","o","o"," ","M","a","n","y"," ","R","e","q","u","e","s","t","s">>,
    \* 'are you a robot'
    <<"a","r","e"," ","y","o","u"," ","a"," ","r","o","b","o","t">>,
    \* 'captcha'
    <<"c","a","p","t","c","h","a">>>>

COOKIES_EXPIRED_PATTERNS ==
  <<\* 'cookies are not valid'
    <<"c","o","o","k","i","e","s"," ","a","r","e"," ","n","o","t"," ","v","a","l","i","d">>,
    \* 'cookies have expired'
    <<"c","o","o","k","i","e","s"," ","h","a","v","e"," ","e","x","p","i","r","e","d">>,
    \* 'Login required'
    <<"L","o","g","i","n"," ","r","e","q","u","i","r","e","d">>,
    \* 'Please sign in'
    <<"P","l","e","a","s","e"," ","s","i","g","n"," ","i","n">>,
    \* 'session has expired'
    <<"s","e","s","s","i","o","n"," ","h","a","s"," ","e","x","p","i","r","e","d">>>>

\* the for loop over a pattern list from index k on: the index of the first
\* pattern that the lower-cased error text contains, 0 if there is none
RECURSIVE FirstPatternFrom(_, _, _)
FirstPatternFrom(patterns, lowered, k) ==
  IF k > Len(patterns) THEN 0
  ELSE IF includes(lowered, toLowerCase(patterns[k])) THEN k
  ELSE FirstPatternFrom(patterns, lowered, k + 1)

FirstPattern(patterns, errorStr) ==
  FirstPatternFrom(patterns, toLowerCase(errorStr), 1)

\* variant: the session-expiry patterns are checked first
parseBotDetectionError_expiredFirst(errorStr) ==
  LET bot == FirstPattern(BOT_DETECTION_PATTERNS, errorStr)
      expired == FirstPattern(COOKIES_EXPIRED_PATTERNS, errorStr)
  IN
  IF expired # 0
  THEN [isBotDetection |-> FALSE, isExpiredCookies |-> TRUE,
        code |-> "COOKIES_EXPIRED", userMessage |-> T_ExpiredUserMessage,
        technicalMessage |-> <<"C","o","o","k","i","e"," ","e","x","p","i","r","a","t","i","o","n"," ","d","e","t","e","c","t","e","d",":"," ">> \o COOKIES_EXPIRED_PATTERNS[expired]]
  ELSE IF bot # 0
  THEN [isBotDetection |-> TRUE, isExpiredCookies |-> FALSE,
        code |-> "BOT_DETECTION", userMessage |-> T_BotUserMessage,
        technicalMessage |-> <<"B","o","t"," ","d","e","t","e","c","t","i","o","n"," ","t","r","i","g","g","e","r","e","d",":"," ">> \o BOT_DETECTION_PATTERNS[bot]]
  ELSE [isBotDetection |-> FALSE, isExpiredCookies |-> FALSE,
        code |-> "OTHER", userMessage |-> <<"F","a","i","l","e","d"," ","t","o"," ","a","c","c","e","s","s"," ","Y","o","u","T","u","b","e"," ","v","i","d","e","o",".">>,
        technicalMessage |-> errorStr]

\* parseBotDetectionError(error), error.message = errorStr
parseBotDetectionError(errorStr) ==
  LET bot == FirstPattern(BOT_DETECTION_PATTERNS, errorStr)
      expired == FirstPattern(COOKIES_EXPIRED_PATTERNS, errorStr)
  IN
  IF bot # 0
  THEN [isBotDetection |-> TRUE, isExpiredCookies |-> FALSE,
        code |-> "BOT_DETECTION", userMessage |-> T_BotUserMessage,
        technicalMessage |-> <<"B","o","t"," ","d","e","t","e","c","t","i","o","n"," ","t","r","i","g","g","e","r","e","d",":"," ">> \o BOT_DETECTION_PATTERNS[bot]]
  ELSE IF expired # 0
  THEN [isBotDetection |-> FALSE, isExpiredCookies |-> TRUE,
        code |-> "COOKIES_EXPIRED", userMessage |-> T_ExpiredUserMessage,
        technicalMessage |-> <<"C","o","o","k","i","e"," ","e","x","p","i","r","a","t","i","o","n"," ","d","e","t","e","c","t","e","d",":"," ">> \o COOKIES_EXPIRED_PATTERNS[expired]]
  ELSE [isBotDetection |-> FALSE, isExpiredCookies |-> FALSE,
        code |-> "OTHER", userMessage |-> <<"F","a","i","l","e","d"," ","t","o"," ","a","c","c","e","s","s"," ","Y","o","u","T","u","b","e"," ","v","i","d","e","o",".">>,
        technicalMessage |-> errorStr]

\* COOKIES_MAX_AGE_HOURS
COOKIES_MAX_AGE_HOURS == 72
\* COOKIES_CRITICAL_AGE_HOURS
COOKIES_CRITICAL_AGE_HOURS == 168
\* minimum number of cookie lines of a usable file
MIN_COOKIE_COUNT == 5

\* variant: the age is checked before the number of cookie lines
validateCookies_ageFirst(f) ==
  IF ~f.exists
  THEN [exists |-> FALSE, valid |-> FALSE, cookieCount |-> 0, status |-> "missing"]
  ELSE IF ~f.readable
  THEN [exists |-> TRUE, valid |-> FALSE, cookieCount |-> 0, status |-> "error"]
  ELSE IF f.ageHours > COOKIES_CRITICAL_AGE_HOURS
  THEN [exists |-> TRUE, valid |-> TRUE, cookieCount |-> f.cookieCount,
        status |-> "critical"]
  ELSE IF f.cookieCount < MIN_COOKIE_COUNT
  THEN [exists |-> TRUE, valid |-> FALSE, cookieCount |-> f.cookieCount,
        status |-> "invalid"]
  ELSE IF f.ageHours > COOKIES_MAX_AGE_HOURS
  THEN [exists |-> TRUE, valid |-> TRUE, cookieCount |-> f.cookieCount,
        status |-> "stale"]
  ELSE [exists |-> TRUE, valid |-> TRUE, cookieCount |-> f.cookieCount,
        status |-> "fresh"]

\* variant: the critical threshold itself counts as critical
validateCookies_criticalAtThreshold(f) ==
  IF ~f.exists
  THEN [exists |-> FALSE, valid |-> FALSE, cookieCount |-> 0, status |-> "missing"]
  ELSE IF ~f.readable
  THEN [exists |-> TRUE, valid |-> FALSE, cookieCount |-> 0, status |-> "error"]
  ELSE IF f.cookieCount < MIN_COOKIE_COUNT
  THEN [exists |-> TRUE, valid |-> FALSE, cookieCount |-> f.cookieCount,
        status |-> "invalid"]
  ELSE IF f.ageHours >= COOKIES_CRITICAL_AGE_HOURS
  THEN [exists |-> TRUE, valid |-> TRUE, cookieCount |-> f.cookieCount,
        status |-> "critical"]
  ELSE IF f.ageHours > COOKIES_MAX_AGE_HOURS
  THEN [exists |-> TRUE, valid |-> TRUE, cookieCount |-> f.cookieCount,
        status |-> "stale"]
  ELSE [exists |-> TRUE, valid |-> TRUE, cookieCount |-> f.cookieCount,
        status |-> "fresh"]

\* validateCookies() on a cookie file f = [exists, readable, ageHours, cookieCount]
validateCookies(f) ==
  IF ~f.exists
  THEN [exists |-> FALSE, valid |-> FALSE, cookieCount |-> 0, status |-> "missing"]
  ELSE IF ~f.readable
  THEN [exists |-> TRUE, valid |-> FALSE, cookieCount |-> 0, status |-> "error"]
  ELSE IF f.cookieCount < MIN_COOKIE_COUNT
  THEN [exists |-> TRUE, valid |-> FALSE, cookieCount |-> f.cookieCount,
        status |-> "invalid"]
  ELSE IF f.ageHours > COOKIES_CRITICAL_AGE_HOURS
  THEN [exists |-> TRUE, valid |-> TRUE, cookieCount |-> f.cookieCount,
        status |-> "critical"]
  ELSE IF f.ageHours > COOKIES_MAX_AGE_HOURS
  THEN [exists |-> TRUE, valid |-> TRUE, cookieCount |-> f.cookieCount,
        status |-> "stale"]
  ELSE [exists |-> TRUE, valid |-> TRUE, cookieCount |-> f.cookieCount,
        status |-> "fresh"]

\* variant: the arguments are injected whatever the file is
getCookieArgs_always(f) == <<<<"-","-","c","o","o","k","i","e","s">>, COOKIES_PATH>>

\* variant: the arguments are injected whenever the file exists
getCookieArgs_whenExists(f) ==
  IF validateCookies(f).exists
  THEN <<<<"-","-","c","o","o","k","i","e","s">>, COOKIES_PATH>>
  ELSE <<>>

\* getCookieArgs()
getCookieArgs(f) ==
  IF validateCookies(f).valid /\ validateCookies(f).exists
  THEN <<<<"-","-","c","o","o","k","i","e","s">>, COOKIES_PATH>>
  ELSE <<>>

\* the grave accent character, which a TLA+ string cannot hold
Backquote == "grave"

\* the character class of escapeShellArg: white space, both quotes, dollar,
\* grave accent, backslash, bar, ampersand, semicolon, angle brackets
IsShellSpecial(c) ==
  IsSpace(c) \/ c \in {"\"", "'", "$", Backquote, "\\", "|", "&", ";", "<", ">"}

\* arg.replace: every single quote becomes quote, backslash, quote, quote
RECURSIVE escapeQuotes(_)
escapeQuotes(s) ==
  IF s = <<>> THEN <<>>
  ELSE (IF Head(s) = "'" THEN <<"'","\\","'","'">> ELSE <<Head(s)>>) \o escapeQuotes(Tail(s))

\* escapeShellArg(arg)
escapeShellArg(arg) ==
  IF \/ startsWith(arg, T_Quote) /\ endsWith(arg, T_Quote)
     \/ startsWith(arg, T_SQuote) /\ endsWith(arg, T_SQuote)
  THEN arg
  ELSE IF \E i \in DOMAIN arg : IsShellSpecial(arg[i])
  THEN T_SQuote \o escapeQuotes(arg) \o T_SQuote
  ELSE arg

\* Array.prototype.join(' ')
RECURSIVE joinSpace(_)
joinSpace(args) ==
  IF args = <<>> THEN <<>>
  ELSE IF Len(args) = 1 THEN args[1]
  ELSE args[1] \o T_Space \o joinSpace(Tail(args))

\* the command line executeYtdlp(args) hands to exec
ytdlpCommand(f, args) ==
  T_YtDlp \o joinSpace([i \in DOMAIN (getCookieArgs(f) \o args) |->
                          escapeShellArg((getCookieArgs(f) \o args)[i])])

\* message of the Error with which child_process.exec rejects
execErrorMessage(command, stderr) == <<"C","o","m","m","a","n","d"," ","f","a","i","l","e","d",":"," ">> \o command \o T_NL \o stderr

\* an Error object: its code property and its message
Err(code, message) == [code |-> code, message |-> message]

\* the catch block of executeYtdlp: the error thrown for a failed command
executeYtdlpError(f, args, stderr) ==
  LET raw == execErrorMessage(ytdlpCommand(f, args), stderr)
      parsed == parseBotDetectionError(raw)
  IN IF parsed.isBotDetection \/ parsed.isExpiredCookies
     THEN Err(parsed.code, parsed.userMessage)
     ELSE Err("EXIT", raw)

(***************************************************************************)
(* utils/ytdlp.js and utils/whisper-faster.js: commands and paths          *)
(***************************************************************************)
\* args of getVideoMetadata
\* ['--dump-json', '--no-warnings', videoUrl]
metadataArgs(url) ==
  <<<<"-","-","d","u","m","p","-","j","s","o","n">>,
    <<"-","-","n","o","-","w","a","r","n","i","n","g","s">>,
    url>>

\* workDir of extractYouTubeTranscript, named by Date.now()
subsWorkDir(t) == <<"/","t","m","p","/","y","t","_","s","u","b","s","_">> \o NatToString(t)

\* args of extractYouTubeTranscript
subtitleArgs(workDir, url) ==
  <<<<"-","-","w","r","i","t","e","-","s","u","b","s">>,
    <<"-","-","w","r","i","t","e","-","a","u","t","o","-","s","u","b","s">>,
    <<"-","-","s","k","i","p","-","d","o","w","n","l","o","a","d">>,
    <<"-","-","s","u","b","-","f","o","r","m","a","t">>, <<"j","s","o","n","3">>,
    \* '--sub-langs', 'en,en-US,en-GB,en.*'
    <<"-","-","s","u","b","-","l","a","n","g","s">>,
    <<"e","n",",","e","n","-","U","S",",","e","n","-","G","B",",","e","n",".","*">>,
    <<"-","o">>, workDir \o <<"/","%","(","i","d",")","s",".","%","(","e","x","t",")","s">>, url>>

\* tempDir of downloadAudioFromYouTube, named by uuidv4() (the n-th value drawn)
audioTempDir(n) == <<"/","t","m","p","/","w","h","i","s","p","e","r","_">> \o NatToString(n)

\* outputDir of transcribeWithWhisper, named by uuidv4()
whisperOutputDir(n) == <<"/","t","m","p","/","w","h","i","s","p","e","r","_","o","u","t","_">> \o NatToString(n)

\* command of downloadAudioFromYouTube: template and URL between double quotes
downloadCommand(tempDir, url) ==
  <<"y","t","-","d","l","p"," ","-","f"," ","b","e","s","t","a","u","d","i","o"," ","-","-","e","x","t","r","a","c","t","-","a","u","d","i","o"," ","-","-","a","u","d","i","o","-","f","o","r","m","a","t"," ","m","p","3"," ","-","-","a","u","d","i","o","-","q","u","a","l","i","t","y"," ","1","9","2","K"," ","-","o"," ">> \o T_Quote \o tempDir \o <<"/","a","u","d","i","o",".","%","(","e","x","t",")","s">> \o T_Quote
    \o T_Space \o T_Quote \o url \o T_Quote

\* command of transcribeWithWhisper (the Python program abbreviated)
whisperCommand(audioFilePath) == T_WhisperCmdHead \o audioFilePath \o <<"'",","," ","l","a","n","g","u","a","g","e","=","'","e","n","'",")"," ",".",".",".","\"">>

\* stderr texts a failing child process leaves; the empty text is a child
\* killed at its timeout
StderrOf(kind) ==
  CASE kind = "http403" -> <<"E","R","R","O","R",":"," ","u","n","a","b","l","e"," ","t","o"," ","d","o","w","n","l","o","a","d"," ","v","i","d","e","o"," ","d","a","t","a",":"," ","H","T","T","P"," ","E","r","r","o","r"," ","4","0","3",":"," ","F","o","r","b","i","d","d","e","n">>
    [] kind = "login" -> <<"E","R","R","O","R",":"," ","l","o","g","i","n"," ","r","e","q","u","i","r","e","d">>
    [] kind = "traceback" -> <<"T","r","a","c","e","b","a","c","k"," ","(","m","o","s","t"," ","r","e","c","e","n","t"," ","c","a","l","l"," ","l","a","s","t",")",":"," ","R","u","n","t","i","m","e","E","r","r","o","r">>
    [] kind = "timeout" -> <<>>

YtdlpFailures == {"http403", "login", "timeout"}
WhisperFailures == {"traceback", "timeout"}

\* a transcript segment
Segment(text, start, duration) == [text |-> text, start |-> start, duration |-> duration]

\* the transcript a successful extraction or transcription yields in the model
SampleTranscript == <<Segment(<<"h","e","l","l","o">>, 0, 1), Segment(<<"w","o","r","l","d">>, 1, 2)>>

\* transcript.map(s => s.text).join('\n')
RECURSIVE plainText(_)
plainText(transcript) ==
  IF transcript = <<>> THEN <<>>
  ELSE IF Len(transcript) = 1 THEN transcript[1].text
  ELSE transcript[1].text \o T_NL \o plainText(Tail(transcript))

(***************************************************************************)
(* utils/spaces.js                                                         *)
(***************************************************************************)
\* key of uploadTranscript
objectKey(videoId, filename) == <<"t","r","a","n","s","c","r","i","p","t","s","/">> \o videoId \o <<"/">> \o filename

\* publicUrl of uploadTranscript; the endpoint and the bucket of the
\* configuration are one character each
publicUrl(key) == <<"{endpoint}", "/", "{bucket}", "/">> \o key

\* getTranscriptUrl(videoId, filename)
getTranscriptUrl(videoId, filename) ==
  <<"{endpoint}", "/", "{bucket}", "/">>
    \o <<"t","r","a","n","s","c","r","i","p","t","s","/">> \o videoId \o <<"/">> \o filename

\* variant: every upload is kept as a version of its own
putObject_versioned(objects, key, body) ==
  objects \cup {[key |-> key \o NatToString(Cardinality(objects)), body |-> body]}

\* s3.putObject: the object under the key is replaced
putObject(objects, key, body) ==
  {o \in objects : o.key # key} \cup {[key |-> key, body |-> body]}

(***************************************************************************)
(* State                                                                   *)
(***************************************************************************)
VARIABLES
  jobs,        \* the job records of the queue store, by job id
  wait,        \* the wait list of the queue, oldest first
  workers,     \* the execution of the process function in each worker slot
  log,         \* what the current or last attempt of each slot did
  runs,        \* how often the process function was started for each job
  fs,          \* temporary directories and files present under /tmp
  objects,     \* objects of the storage bucket
  nextUuid,    \* number of uuidv4() values drawn
  now,         \* Date.now(): advances with every start of an execution;
               \* reads in between may fall into the same millisecond
  features,    \* config.features
  call,        \* the last call of a helper made outside of a job, or the
               \* last HTTP request, with its result
  whisper,     \* config.whisper
  transcriptCache  \* the transcriptCache Map of the transcript router

vars == <<jobs, wait, workers, log, runs, fs, objects, nextUuid, now, features, call,
          whisper, transcriptCache>>

JobIds == 1..MaxJobs
Slots == 1..concurrency

NoResult == [tier |-> 0]

NoJob ==
  [state |-> "none", url |-> <<>>, forceWhisper |-> FALSE, attempts |-> 0,
   attemptsMade |-> 0, progress |-> 0, returnvalue |-> NoResult,
   failedReason |-> <<>>, lock |-> 0, stalledCount |-> 0, finishedOn |-> 0]

IdleWorker ==
  [pc |-> "idle", job |-> 0, videoId |-> <<>>, workDir |-> <<>>,
   tempDir |-> <<>>, audioPath |-> <<>>, outputDir |-> <<>>,
   transcript |-> <<>>, transcriptUrl |-> <<>>, attemptsMade |-> 0]

NewLog(j) ==
  [job |-> j, calls |-> <<>>, outs |-> <<>>, reported |-> <<>>,
   created |-> {}, timeouts |-> {}, outcome |-> "running"]

\* URLs submitted in the model
Urls == {U_Watch, U_Invalid}

\* states in which a call of executeYtdlp finds the cookie file (it is
\* refreshed by an external process)
CookieFiles ==
  {[exists |-> FALSE, readable |-> FALSE, ageHours |-> 0, cookieCount |-> 0],
   [exists |-> TRUE, readable |-> TRUE, ageHours |-> 1, cookieCount |-> 6]}

\* values Date.now() takes: one per start of the process function
Times == 0..(Max({MaxJobs, MaxPoolJobs}) * (maxAttempts + maxStalledCount))

\* extractVideoId of the URLs of the model
videoIdOf == [u \in Urls |-> extractVideoId(u)]

\* the error executeYtdlp throws in getVideoMetadata(u), by cookie file and
\* failure of the child process
metadataError ==
  [u \in Urls, f \in CookieFiles, out \in YtdlpFailures |->
     executeYtdlpError(f, metadataArgs(u), StderrOf(out))]

\* the error executeYtdlp throws in extractYouTubeTranscript(u) with workDir d
subtitleError ==
  [d \in {subsWorkDir(t) : t \in Times}, u \in Urls, f \in CookieFiles,
   out \in YtdlpFailures |->
     executeYtdlpError(f, subtitleArgs(d, u), StderrOf(out))]

Init ==
  /\ jobs = [j \in JobIds |-> NoJob]
  /\ wait = <<>>
  /\ workers = [w \in Slots |-> IdleWorker]
  /\ log = [w \in Slots |-> NewLog(0)]
  /\ runs = [j \in JobIds |-> 0]
  /\ fs = {}
  /\ objects = {}
  /\ nextUuid = 0
  /\ now = 0
  /\ features \in [enableYoutubeTier : BOOLEAN, enableWhisperTier : BOOLEAN]
  /\ call = [fn |-> "none"]
  /\ whisper = [model |-> "small"]
  /\ transcriptCache = <<>>

(***************************************************************************)
(* The queue library as configured by addTranscriptionJob                  *)
(***************************************************************************)
\* variant: the last permitted attempt is never granted
shouldRetry_offByOne(attemptsMade, attempts) == attemptsMade + 1 < attempts

\* variant: one retry more than opts.attempts allows
shouldRetry_oneMore(attemptsMade, attempts) == attemptsMade <= attempts

\* a failed attempt is retried while attemptsMade < opts.attempts
shouldRetry(attemptsMade, attempts) == attemptsMade < attempts

\* job._saveAttempt: the attempt counter of the worker's copy of the job and
\* the reason are written to the job, whoever holds the lock
saveAttempt(jb, attemptsMade, err) ==
  [jb EXCEPT !.attemptsMade = attemptsMade + 1, !.failedReason = err.message]

\* the job after the process function threw err: moved to delayed (backoff
\* 2000ms, exponential) or to failed, if the lock is still the one of the
\* worker's queue object; otherwise the move is refused ('Missing lock for
\* job') and only the attempt is saved
moveToFailed(jb, token, attemptsMade, err) ==
  LET saved == saveAttempt(jb, attemptsMade, err)
  IN IF jb.lock # token THEN saved
     ELSE [saved EXCEPT !.lock = 0,
                        !.state = IF shouldRetry(attemptsMade + 1, jb.attempts)
                                  THEN "delayed" ELSE "failed"]

\* variant: the result is stored without a look at the lock
moveToCompleted_ignoresLock(jb, token, result) ==
  [jb EXCEPT !.state = "completed", !.returnvalue = result, !.lock = 0,
             !.finishedOn = now]

\* the job after the process function returned result: moved to completed
\* (with the time, finishedOn) if the lock is still the one of the worker's
\* queue object
moveToCompleted(jb, token, result) ==
  IF jb.lock # token THEN jb
  ELSE [jb EXCEPT !.state = "completed", !.returnvalue = result, !.lock = 0,
                  !.finishedOn = now]

(***************************************************************************)
(* transcriptionQueue.process: the steps of one execution.  A step works   *)
(* on st = [wk, lg, jb, fs, objects, uuid, token]: the slot, its log, the  *)
(* job record, the files, the bucket, the number of uuids drawn and the    *)
(* lock token of the slot.                                                 *)
(***************************************************************************)
AuthCodes == {"BOT_DETECTION", "COOKIES_EXPIRED"}

\* text of an error code in a template literal
CodeText(code) == IF code = "BOT_DETECTION" THEN T_BOT_DETECTION ELSE T_COOKIES_EXPIRED

\* job.progress(n)
Progress(st, n) ==
  [st EXCEPT !.jb.progress = n, !.lg.reported = Append(@, n)]

\* a call of a collaborator is started / has returned with an outcome
Call(st, step) == [st EXCEPT !.lg.calls = Append(@, step)]
Out(st, o) == [st EXCEPT !.lg.outs = Append(@, o)]

\* variant: the error is not contained, the slot is lost
Throw_escapes(st, err) ==
  [st EXCEPT !.jb = moveToFailed(@, st.token, st.wk.attemptsMade, err),
             !.wk.pc = "crashed", !.lg.outcome = "failed"]

\* the outer catch: log and rethrow to the queue
Throw(st, err) ==
  [st EXCEPT !.jb = moveToFailed(@, st.token, st.wk.attemptsMade, err), !.wk = IdleWorker,
             !.lg.outcome = "failed"]

\* return result
Return(st, result) ==
  [st EXCEPT !.jb = moveToCompleted(@, st.token, result), !.wk = IdleWorker,
             !.lg.outcome = "completed"]

\* mkdir of a temporary directory
Mkdir(st, dir) ==
  [st EXCEPT !.fs = @ \cup {dir}, !.lg.created = @ \cup {dir}]

\* the catch of the Tier-2 try block
tier2Catch(st, err) ==
  IF err.code \in AuthCodes
  THEN Throw(st, Err("", CodeText(err.code) \o T_ColonSpace \o err.message))
  ELSE Throw(st, err)

\* variant: the negation of the feature check is lost
StartTier2_gateInverted(st) ==
  IF features.enableWhisperTier
  THEN Throw(st, Err("", T_WhisperDisabled))
  ELSE LET dir == audioTempDir(st.uuid)
           s1 == Mkdir(Call(Progress(st, 10), "download"), dir)
       IN [s1 EXCEPT !.uuid = @ + 1, !.wk.tempDir = dir, !.wk.pc = "download"]

\* Tier 2 entry: feature check, progress 10, downloadAudioFromYouTube up to exec
StartTier2(st) ==
  IF ~features.enableWhisperTier
  THEN Throw(st, Err("", T_WhisperDisabled))
  ELSE LET dir == audioTempDir(st.uuid)
           s1 == Mkdir(Call(Progress(st, 10), "download"), dir)
       IN [s1 EXCEPT !.uuid = @ + 1, !.wk.tempDir = dir, !.wk.pc = "download"]

\* variant: the catch rethrows the authentication errors, as the process
\* function without a Tier-1 try block does
tier1Catch_rethrowsAuth(st, err) ==
  IF err.code \in AuthCodes THEN Throw(st, err) ELSE StartTier2(st)

\* the catch of the Tier-1 try block: both branches log and fall through
tier1Catch(st, err) == StartTier2(st)

\* what extractYouTubeTranscript resolves to: null, or a transcript record
NoTranscript == [found |-> FALSE, transcript |-> <<>>]
Extracted(transcript) == [found |-> TRUE, transcript |-> transcript]

\* the Tier-1 test youtubeTranscript && youtubeTranscript.transcript.length > 0
tier1Found(r) == r.found /\ Len(r.transcript) > 0

\* variant: the guard ignores forceWhisper
tier1Enabled_ignoresForce(forceWhisper) == features.enableYoutubeTier

\* the Tier-1 guard
tier1Enabled(forceWhisper) == features.enableYoutubeTier /\ ~forceWhisper

\* Tier 1 entry: extractYouTubeTranscript up to exec
StartTier1(st) ==
  LET dir == subsWorkDir(now)
      s1 == Mkdir(Call(st, "tier1"), dir)
  IN [s1 EXCEPT !.wk.workDir = dir, !.wk.pc = "tier1"]

\* after the metadata: progress 5, then Tier 1 or Tier 2
AfterMetadata(st) ==
  IF tier1Enabled(st.jb.forceWhisper)
  THEN StartTier1(Progress(st, 5))
  ELSE StartTier2(Progress(st, 5))

\* the catch around getVideoMetadata
metadataCatch(st, err) ==
  IF err.code \in AuthCodes
  THEN Throw(st, Err("", CodeText(err.code) \o T_ColonSpace \o err.message
                           \o <<"."," ","P","l","e","a","s","e"," ","r","e","f","r","e","s","h"," ","Y","o","u","T","u","b","e"," ","c","o","o","k","i","e","s",".">>))
  ELSE Throw(st, err)

\* the Tier-1 result envelope
tier1Result(st, transcriptJsonUrl) ==
  [jobId |-> st.wk.job, videoId |-> st.wk.videoId,
   source |-> "youtube-native", confidence |-> 98,
   transcriptUrl |-> st.wk.transcriptUrl, transcriptJsonUrl |-> transcriptJsonUrl,
   tier |-> 1]

\* the Tier-2 result envelope
tier2Result(st, transcriptJsonUrl) ==
  [jobId |-> st.wk.job, videoId |-> st.wk.videoId,
   source |-> "whisper-small", confidence |-> 96,
   transcriptUrl |-> st.wk.transcriptUrl, transcriptJsonUrl |-> transcriptJsonUrl,
   tier |-> 2]

\* uploadTranscript succeeded: the object is stored
Upload(st, filename, body) ==
  [st EXCEPT !.objects = putObject(@, objectKey(st.wk.videoId, filename), body)]

\* the error of a rejected s3.putObject
UploadError == Err("AccessDenied", <<"A","c","c","e","s","s"," ","D","e","n","i","e","d">>)

\* queue.token: one per worker process, each process has concurrency slots
queueToken(w) == ((w - 1) \div concurrency) + 1

\* the state a step of slot w works on
St(w) ==
  [wk |-> workers[w], lg |-> log[w], jb |-> jobs[workers[w].job], fs |-> fs,
   objects |-> objects, uuid |-> nextUuid, token |-> queueToken(w)]

\* the step's outcome becomes the state
Commit(w, j, st) ==
  \E s \in {st} :
    /\ workers' = [workers EXCEPT ![w] = s.wk]
    /\ log' = [log EXCEPT ![w] = s.lg]
    /\ jobs' = [jobs EXCEPT ![j] = s.jb]
    /\ fs' = s.fs
    /\ objects' = s.objects
    /\ nextUuid' = s.uuid

(***************************************************************************)
(* Actions                                                                 *)
(***************************************************************************)
\* variant: the job is added with a single attempt
queueAdd_singleAttempt(url, forceWhisper) ==
  /\ \E j \in DOMAIN jobs : jobs[j].state = "none"
  /\ LET j == Min({k \in DOMAIN jobs : jobs[k].state = "none"})
     IN /\ jobs' = [jobs EXCEPT ![j] =
                      [NoJob EXCEPT !.state = "waiting", !.url = url,
                                    !.forceWhisper = forceWhisper,
                                    !.attempts = 1]]
        /\ wait' = Append(wait, j)

\* transcriptionQueue.add({url, forceWhisper}, {jobId, attempts, ...}): the
\* new job gets the next unused id and is appended to the wait list
queueAdd(url, forceWhisper) ==
  /\ \E j \in DOMAIN jobs : jobs[j].state = "none"
  /\ LET j == Min({k \in DOMAIN jobs : jobs[k].state = "none"})
     IN /\ jobs' = [jobs EXCEPT ![j] =
                      [NoJob EXCEPT !.state = "waiting", !.url = url,
                                    !.forceWhisper = forceWhisper,
                                    !.attempts = maxAttempts]]
        /\ wait' = Append(wait, j)

\* addTranscriptionJob(url, {forceWhisper})
addTranscriptionJob(url, forceWhisper) ==
  /\ queueAdd(url, forceWhisper)
  /\ UNCHANGED <<workers, log, runs, fs, objects, nextUuid, now, features, call, whisper, transcriptCache>>

\* the backoff delay of a delayed job has passed
PromoteDelayed(j) ==
  /\ jobs[j].state = "delayed"
  /\ jobs' = [jobs EXCEPT ![j].state = "waiting"]
  /\ wait' = Append(wait, j)
  /\ UNCHANGED <<workers, log, runs, fs, objects, nextUuid, now, features, call, whisper, transcriptCache>>

\* variant: a slot takes a job while it executes another one
slotFree_always(wk) == TRUE

\* a slot of the pool asks for the next job only when it executes none
slotFree(wk) == wk.pc = "idle"

\* a free slot takes the next waiting job and runs the process function up
\* to its first await: extractVideoId, then getVideoMetadata up to exec.
\* Free slots are interchangeable: the lowest one takes the job.
ProcessJob(w) ==
  /\ slotFree(workers[w])
  /\ \A v \in DOMAIN workers : v < w => workers[v].pc # "idle"
  /\ wait # <<>>
  /\ \E vid \in {videoIdOf[jobs[Head(wait)].url]} :
     LET j == Head(wait)
         st0 == [wk |-> [IdleWorker EXCEPT !.job = j,
                                            !.attemptsMade = jobs[j].attemptsMade],
                 lg |-> NewLog(j),
                 jb |-> [jobs[j] EXCEPT !.state = "active",
                                        !.lock = queueToken(w)],
                 fs |-> fs, token |-> queueToken(w),
                 objects |-> objects, uuid |-> nextUuid]
     IN /\ Commit(w, j,
             IF ~vid.ok THEN Throw(st0, Err("", vid.message))
             ELSE [Call(st0, "metadata") EXCEPT !.wk.videoId = vid.value,
                                                !.wk.pc = "metadata"])
        /\ runs' = [runs EXCEPT ![j] = @ + 1]
  /\ wait' = Tail(wait)
  /\ now' = now + 1
  /\ UNCHANGED <<features, call, whisper, transcriptCache>>

\* getVideoMetadata returns a record, returns null or throws
MetadataReturns(w) ==
  /\ workers[w].pc = "metadata"
  /\ \E out \in {"ok", "badjson"} \cup YtdlpFailures, f \in CookieFiles :
     \E e \in {IF out \in YtdlpFailures
               THEN metadataError[jobs[workers[w].job].url, f, out]
               ELSE Err("", <<>>)} :
       LET st == [St(w) EXCEPT !.lg.timeouts =
                    @ \cup IF out = "timeout" THEN {"metadata"} ELSE {}]
       IN Commit(w, st.wk.job,
            IF out = "ok" THEN AfterMetadata(Out(st, "ok"))
            ELSE IF out \in YtdlpFailures /\ e.code \in AuthCodes
            THEN metadataCatch(Out(st, "auth"), e)
            ELSE metadataCatch(Out(st, "null"), Err("", <<"C","o","u","l","d"," ","n","o","t"," ","f","e","t","c","h"," ","v","i","d","e","o"," ","m","e","t","a","d","a","t","a">>)))
  /\ UNCHANGED <<wait, runs, now, features, call, whisper, transcriptCache>>

\* extractYouTubeTranscript returns a transcript, returns null or throws;
\* workDir is removed on every path
Tier1Returns(w) ==
  /\ workers[w].pc = "tier1"
  /\ \E out \in {"ok", "empty", "nofile"} \cup YtdlpFailures, f \in CookieFiles :
     \E e \in {IF out \in YtdlpFailures
               THEN subtitleError[workers[w].workDir, jobs[workers[w].job].url, f, out]
               ELSE Err("", <<>>)} :
       LET s0 == St(w)
           st == [s0 EXCEPT !.fs = @ \ {s0.wk.workDir},
                            !.lg.timeouts =
                               @ \cup IF out = "timeout" THEN {"tier1"} ELSE {}]
           r == IF out = "ok" THEN Extracted(SampleTranscript) ELSE NoTranscript
       IN Commit(w, st.wk.job,
            IF out \in YtdlpFailures /\ e.code \in AuthCodes
            THEN tier1Catch(Out(st, "auth"), e)
            ELSE IF tier1Found(r)
            THEN [Call(Progress(Out(st, "ok"), 50), "upload_txt") EXCEPT
                    !.wk.transcript = r.transcript,
                    !.wk.pc = "t1_upload_txt"]
            ELSE StartTier2(Out(st, "null")))
  /\ UNCHANGED <<wait, runs, now, features, call, whisper, transcriptCache>>

\* Tier 1: uploadTranscript(videoId, 'transcript.txt', ...) returns or throws
T1UploadTxt(w) ==
  /\ workers[w].pc = "t1_upload_txt"
  /\ \E out \in {"ok", "error"} :
       LET st == Out(St(w), out)
       IN Commit(w, st.wk.job,
            IF out = "ok"
            THEN [Call(Upload(st, T_TranscriptTxt, plainText(st.wk.transcript)),
                       "upload_json") EXCEPT
                    !.wk.transcriptUrl = objectKey(st.wk.videoId, T_TranscriptTxt),
                    !.wk.pc = "t1_upload_json"]
            ELSE tier1Catch(st, UploadError))
  /\ UNCHANGED <<wait, runs, now, features, call, whisper, transcriptCache>>

\* Tier 1: uploadTranscript(videoId, 'transcript.json', ...) returns or throws
T1UploadJson(w) ==
  /\ workers[w].pc = "t1_upload_json"
  /\ \E out \in {"ok", "error"} :
       LET st == Out(St(w), out)
       IN Commit(w, st.wk.job,
            IF out = "ok"
            THEN LET s1 == Upload(st, T_TranscriptJson, [json |-> st.wk.transcript])
                 IN Return(Progress(s1, 100),
                           tier1Result(s1, objectKey(st.wk.videoId, T_TranscriptJson)))
            ELSE tier1Catch(st, UploadError))
  /\ UNCHANGED <<wait, runs, now, features, call, whisper, transcriptCache>>

\* downloadAudioFromYouTube returns or throws, then transcribeWithWhisper up
\* to exec
DownloadReturns(w) ==
  /\ workers[w].pc = "download"
  /\ \E out \in {"ok", "nofile"} \cup YtdlpFailures :
       LET st == [Out(St(w), IF out = "ok" THEN "ok" ELSE "error") EXCEPT
                    !.lg.timeouts = @ \cup IF out = "timeout" THEN {"download"} ELSE {}]
           audioPath == st.wk.tempDir \o <<"/","a","u","d","i","o",".","m","p","3">>
           outputDir == whisperOutputDir(st.uuid)
       IN Commit(w, st.wk.job,
            IF out = "ok"
            THEN LET s1 == [st EXCEPT !.fs = @ \cup {audioPath},
                                      !.lg.created = @ \cup {audioPath}]
                     s2 == Mkdir(Call(Progress(s1, 40), "transcribe"), outputDir)
                 IN [s2 EXCEPT !.uuid = @ + 1, !.wk.audioPath = audioPath,
                               !.wk.outputDir = outputDir, !.wk.pc = "transcribe"]
            ELSE IF out = "nofile"
            THEN tier2Catch(st, Err("", <<"N","o"," ","a","u","d","i","o"," ","f","i","l","e"," ","w","a","s"," ","d","o","w","n","l","o","a","d","e","d">>))
            ELSE tier2Catch(st, Err("EXIT",
                   execErrorMessage(downloadCommand(st.wk.tempDir, st.jb.url),
                                    StderrOf(out)))))
  /\ UNCHANGED <<wait, runs, now, features, call, whisper, transcriptCache>>

\* transcribeWithWhisper returns or throws
TranscribeReturns(w) ==
  /\ workers[w].pc = "transcribe"
  /\ \E out \in {"ok", "nosegments"} \cup WhisperFailures :
       LET st == [Out(St(w), IF out \in WhisperFailures THEN "error" ELSE "ok") EXCEPT
                    !.lg.timeouts = @ \cup IF out = "timeout" THEN {"transcribe"} ELSE {}]
       IN Commit(w, st.wk.job,
            IF out \in {"ok", "nosegments"}
            THEN [Call(Progress(st, 90), "upload_txt") EXCEPT
                    !.wk.transcript = IF out = "ok" THEN SampleTranscript ELSE <<>>,
                    !.wk.pc = "t2_upload_txt"]
            ELSE tier2Catch(st, Err("EXIT",
                   execErrorMessage(whisperCommand(st.wk.audioPath), StderrOf(out)))))
  /\ UNCHANGED <<wait, runs, now, features, call, whisper, transcriptCache>>

\* Tier 2: uploadTranscript(videoId, 'transcript.txt', ...) returns or throws
T2UploadTxt(w) ==
  /\ workers[w].pc = "t2_upload_txt"
  /\ \E out \in {"ok", "error"} :
       LET st == Out(St(w), out)
       IN Commit(w, st.wk.job,
            IF out = "ok"
            THEN [Call(Upload(st, T_TranscriptTxt, plainText(st.wk.transcript)),
                       "upload_json") EXCEPT
                    !.wk.transcriptUrl = objectKey(st.wk.videoId, T_TranscriptTxt),
                    !.wk.pc = "t2_upload_json"]
            ELSE tier2Catch(st, UploadError))
  /\ UNCHANGED <<wait, runs, now, features, call, whisper, transcriptCache>>

\* Tier 2: uploadTranscript(videoId, 'transcript.json', ...) returns or throws
T2UploadJson(w) ==
  /\ workers[w].pc = "t2_upload_json"
  /\ \E out \in {"ok", "error"} :
       LET st == Out(St(w), out)
       IN Commit(w, st.wk.job,
            IF out = "ok"
            THEN LET s1 == Upload(st, T_TranscriptJson, [json |-> st.wk.transcript])
                 IN Return(Progress(s1, 100),
                           tier2Result(s1, objectKey(st.wk.videoId, T_TranscriptJson)))
            ELSE tier2Catch(st, UploadError))
  /\ UNCHANGED <<wait, runs, now, features, call, whisper, transcriptCache>>

Next ==
  \/ \E url \in Urls, forceWhisper \in BOOLEAN : addTranscriptionJob(url, forceWhisper)
  \/ \E j \in JobIds : PromoteDelayed(j)
  \/ \E w \in Slots : ProcessJob(w)
  \/ \E w \in Slots : MetadataReturns(w)
  \/ \E w \in Slots : Tier1Returns(w)
  \/ \E w \in Slots : T1UploadTxt(w)
  \/ \E w \in Slots : T1UploadJson(w)
  \/ \E w \in Slots : DownloadReturns(w)
  \/ \E w \in Slots : TranscribeReturns(w)
  \/ \E w \in Slots : T2UploadTxt(w)
  \/ \E w \in Slots : T2UploadJson(w)

Spec == Init /\ [][Next]_vars

TypeOK ==
  /\ \A j \in JobIds :
       jobs[j].state \in {"none", "waiting", "delayed", "active", "completed", "failed"}
  /\ \A w \in Slots : workers[w].pc = "idle" <=> workers[w].job = 0

(***************************************************************************)
(* Stalled jobs.  The queue is created with lockDuration 30s,              *)
(* lockRenewTime 15s and maxStalledCount 2: an active job whose lock has   *)
(* expired is put back by the queue's stalled-job check.                   *)
(***************************************************************************)
\* the lock of active job j is not renewed for lockDuration and expires;
\* a process function that executes j keeps running
LockExpires(j) ==
  /\ jobs[j].state = "active"
  /\ jobs[j].lock # 0
  /\ jobs' = [jobs EXCEPT ![j].lock = 0]
  /\ UNCHANGED <<wait, workers, log, runs, fs, objects, nextUuid, now, features, call, whisper, transcriptCache>>

\* variant: the job is failed when it reaches maxStalledCount
stalledLimitExceeded_atLimit(stalledCount) == stalledCount >= maxStalledCount

\* a job that stalled more often than maxStalledCount is failed
stalledLimitExceeded(stalledCount) == stalledCount > maxStalledCount

\* the stalled-job check finds active job j without a lock: back to the
\* head of the wait list, or failed
moveStalledJobsToWait(j) ==
  /\ jobs[j].state = "active"
  /\ jobs[j].lock = 0
  /\ LET n == jobs[j].stalledCount + 1
     IN IF stalledLimitExceeded(n)
        THEN /\ jobs' = [jobs EXCEPT ![j].stalledCount = n,
                                     ![j].state = "failed",
                                     ![j].failedReason =
                                        <<"j","o","b"," ","s","t","a","l","l","e","d">>]
             /\ wait' = wait
        ELSE /\ jobs' = [jobs EXCEPT ![j].stalledCount = n,
                                     ![j].state = "waiting"]
             /\ wait' = <<j>> \o wait
  /\ UNCHANGED <<workers, log, runs, fs, objects, nextUuid, now, features, call, whisper, transcriptCache>>

\* the pool: MaxInstances worker processes on one host
PoolSlots == 1..(MaxInstances * concurrency)

\* the pool with the Whisper tier disabled (ENABLE_WHISPER_TIER=false)
PoolInitOf(ids) ==
  /\ jobs = [j \in ids |-> NoJob]
  /\ wait = <<>>
  /\ workers = [w \in PoolSlots |-> IdleWorker]
  /\ log = [w \in PoolSlots |-> NewLog(0)]
  /\ runs = [j \in ids |-> 0]
  /\ fs = {}
  /\ objects = {}
  /\ nextUuid = 0
  /\ now = 0
  /\ features = [enableYoutubeTier |-> TRUE, enableWhisperTier |-> FALSE]
  /\ call = [fn |-> "none"]
  /\ whisper = [model |-> "small"]
  /\ transcriptCache = <<>>

\* the steps of the queue and of the process function in the pool
PoolStep(ids) ==
  \/ \E url \in Urls, forceWhisper \in BOOLEAN : addTranscriptionJob(url, forceWhisper)
  \/ \E j \in ids : PromoteDelayed(j)
  \/ \E w \in PoolSlots : ProcessJob(w)
  \/ \E w \in PoolSlots : MetadataReturns(w)
  \/ \E w \in PoolSlots : Tier1Returns(w)
  \/ \E w \in PoolSlots : T1UploadTxt(w)
  \/ \E w \in PoolSlots : T1UploadJson(w)

\* several jobs in the pool, locks are renewed in time
PoolJobIds == 1..MaxPoolJobs
PoolInit == PoolInitOf(PoolJobIds)
PoolNext == PoolStep(PoolJobIds)
PoolSpec == PoolInit /\ [][PoolNext]_vars

\* the pool with locks that expire
StallInit == PoolInitOf(JobIds)
StallNext ==
  \/ PoolStep(JobIds)
  \/ \E j \in JobIds : LockExpires(j)
  \/ \E j \in JobIds : moveStalledJobsToWait(j)
StallSpec == StallInit /\ [][StallNext]_vars

\* two jobs for the same video in the default configuration, both forced to
\* Tier 2, one worker process
PairInit ==
  /\ jobs = [j \in PoolJobIds |-> NoJob]
  /\ wait = <<>>
  /\ workers = [w \in Slots |-> IdleWorker]
  /\ log = [w \in Slots |-> NewLog(0)]
  /\ runs = [j \in PoolJobIds |-> 0]
  /\ fs = {}
  /\ objects = {}
  /\ nextUuid = 0
  /\ now = 0
  /\ features = [enableYoutubeTier |-> TRUE, enableWhisperTier |-> TRUE]
  /\ call = [fn |-> "none"]
  /\ whisper = [model |-> "small"]
  /\ transcriptCache = <<>>

PairNext ==
  \/ addTranscriptionJob(U_Watch, TRUE)
  \/ \E j \in PoolJobIds : PromoteDelayed(j)
  \/ \E w \in Slots : ProcessJob(w)
  \/ \E w \in Slots : MetadataReturns(w)
  \/ \E w \in Slots : DownloadReturns(w)
  \/ \E w \in Slots : TranscribeReturns(w)
  \/ \E w \in Slots : T2UploadTxt(w)
  \/ \E w \in Slots : T2UploadJson(w)

PairSpec == PairInit /\ [][PairNext]_vars

\* the steps of the queue and of the worker processes in the pool with
\* stalls: everything but the submission of jobs and the expiry of locks
StallSystemStep ==
  \/ \E j \in JobIds : PromoteDelayed(j)
  \/ \E j \in JobIds : moveStalledJobsToWait(j)
  \/ \E w \in PoolSlots : ProcessJob(w)
  \/ \E w \in PoolSlots : MetadataReturns(w)
  \/ \E w \in PoolSlots : Tier1Returns(w)
  \/ \E w \in PoolSlots : T1UploadTxt(w)
  \/ \E w \in PoolSlots : T1UploadJson(w)

\* fair scheduling: timers fire, free slots fetch jobs, and every call of
\* the process function returns, fails or times out
FairStallSpec == StallSpec /\ WF_vars(StallSystemStep)

(***************************************************************************)
(* Properties                                                              *)
(***************************************************************************)
\* C1: retry bound.  The process function is started at most maxAttempts
\* times for a job; a job is Failed only after exactly maxAttempts failed
\* executions, and a job that has failed maxAttempts times is Failed and
\* not queued again.
C1_RetryBound ==
  \A j \in JobIds :
    /\ runs[j] <= maxAttempts
    /\ jobs[j].attemptsMade <= runs[j]
    /\ jobs[j].state = "failed" =>
         runs[j] = maxAttempts /\ jobs[j].attemptsMade = maxAttempts
    /\ jobs[j].attemptsMade = maxAttempts => jobs[j].state = "failed"
    /\ jobs[j].state \in {"waiting", "delayed"} => runs[j] < maxAttempts

\* a job has failed after maxAttempts executions
C1_Witness ==
  \E j \in JobIds : jobs[j].state = "failed" /\ runs[j] = maxAttempts

\* C2: in an attempt in which Tier-1 extraction returned a non-empty
\* transcript, Tier 2 is not invoked, and a completion has tier 1.
C2_Tier1SuccessExcludesTier2 ==
  \A w \in Slots :
    LET lg == log[w]
    IN (Len(lg.outs) >= 2 /\ lg.calls[2] = "tier1" /\ lg.outs[2] = "ok") =>
         /\ "download" \notin Range(lg.calls)
         /\ lg.outcome = "completed" => jobs[lg.job].returnvalue.tier = 1

\* C3: tier fallback.  With forceWhisper false and both tiers enabled, an
\* attempt whose metadata fetch succeeded, whose Tier-1 extraction yielded no
\* transcript and whose Tier-2 calls succeeded so far is still running, and
\* once both uploads have succeeded it has ended with the job Completed and
\* result tier 2.
C3_TierFallback ==
  \A w \in Slots :
    LET lg == log[w]
        n == Len(lg.outs)
        FallbackOuts == <<"ok", "null", "ok", "ok", "ok", "ok">>
    IN (/\ features.enableYoutubeTier /\ features.enableWhisperTier
        /\ lg.job # 0 /\ ~jobs[lg.job].forceWhisper
        /\ n >= 2 /\ n <= Len(FallbackOuts)
        /\ lg.outs = SubSeq(FallbackOuts, 1, n)) =>
         IF n = Len(FallbackOuts)
         THEN /\ lg.outcome = "completed"
              /\ jobs[lg.job].state = "completed"
              /\ jobs[lg.job].returnvalue.tier = 2
         ELSE lg.outcome = "running" /\ jobs[lg.job].state = "active"

\* an attempt has completed over the fallback path
C3_Witness ==
  \E w \in Slots :
    /\ log[w].outs = <<"ok", "null", "ok", "ok", "ok", "ok">>
    /\ log[w].calls[2] = "tier1"
    /\ jobs[log[w].job].state = "completed"
    /\ jobs[log[w].job].returnvalue.tier = 2

\* C4: forced fallback.  No attempt of a job submitted with forceWhisper
\* invokes Tier-1 extraction, and such a job completes with tier 2.
C4_ForcedFallback ==
  /\ \A w \in Slots :
       (log[w].job # 0 /\ jobs[log[w].job].forceWhisper) =>
          "tier1" \notin Range(log[w].calls)
  /\ \A j \in JobIds :
       (jobs[j].forceWhisper /\ jobs[j].state = "completed") =>
          jobs[j].returnvalue.tier = 2

\* a forceWhisper job has completed although the YouTube tier is enabled
C4_Witness ==
  \E j \in JobIds :
    /\ jobs[j].forceWhisper
    /\ features.enableYoutubeTier
    /\ jobs[j].state = "completed"

\* C5: Tier-1 authentication failures are swallowed.  The step in which
\* Tier-1 extraction throws BOT_DETECTION or COOKIES_EXPIRED does not end the
\* attempt with that error: the same attempt goes on to Tier 2, where the
\* audio download is started, or, if the Whisper tier is disabled, the check
\* at the Tier 2 entry throws its own error.
C5_Tier1AuthSwallowed ==
  [][\A w \in Slots :
       (workers[w].pc = "tier1" /\ log'[w].outs = Append(log[w].outs, "auth")) =>
          LET j == workers[w].job
          IN IF features.enableWhisperTier
             THEN /\ workers'[w].pc = "download"
                  /\ workers'[w].job = j
                  /\ jobs'[j].state = "active"
                  /\ jobs'[j].attemptsMade = jobs[j].attemptsMade
                  /\ log'[w].outcome = "running"
             ELSE jobs'[j].failedReason = T_WhisperDisabled]_vars

\* after an authentication error of Tier 1 the attempt downloads the audio
C5_Witness ==
  \E w \in Slots :
    /\ Len(log[w].outs) = 2 /\ log[w].calls[2] = "tier1" /\ log[w].outs[2] = "auth"
    /\ workers[w].pc = "download"

\* C6: a platform block in the Tier-2 audio download is fatal.  When the
\* download throws an error whose text classifies as BOT_DETECTION or
\* COOKIES_EXPIRED, the job is Failed by that attempt.
C6_Tier2BlockFatal ==
  [][\A w \in Slots :
       (/\ workers[w].pc = "download"
        /\ workers'[w].pc = "idle"
        /\ parseBotDetectionError(jobs'[workers[w].job].failedReason).code
             \in AuthCodes) =>
          jobs'[workers[w].job].state = "failed"]_vars

\* C7: a platform block is reported as such.  A job whose last attempt got
\* no transcript from Tier 1 and ended in an audio download that failed with
\* the text HTTP Error 403 is not run more than maxAttempts times, and once
\* Failed its failure reason names BOT_DETECTION.
C7_BlockReported ==
  \A w \in Slots :
    LET lg == log[w]
        n == Len(lg.calls)
    IN (/\ lg.outcome = "failed"
        /\ n >= 3 /\ lg.calls[2] = "tier1" /\ lg.outs[2] = "null"
        /\ lg.calls[n] = "download"
        /\ includes(toLowerCase(jobs[lg.job].failedReason), toLowerCase(BOT_DETECTION_PATTERNS[8]))) =>
         /\ runs[lg.job] <= maxAttempts
         /\ jobs[lg.job].state = "failed" =>
              includes(jobs[lg.job].failedReason, T_BOT_DETECTION)

\* C8: InvalidInput is not retried.  A job whose URL matches no video-ID
\* pattern is Failed by its first execution and is never queued again.
C8_InvalidInputNotRetried ==
  \A j \in JobIds :
    (jobs[j].url \in Urls /\ ~videoIdOf[jobs[j].url].ok /\ runs[j] >= 1) =>
       jobs[j].state \in {"active", "failed"} /\ runs[j] = 1

\* C9: no temp-file leak.  When an attempt has ended, nothing that it
\* created under /tmp is left.
C9_NoTempLeak ==
  \A w \in Slots :
    log[w].outcome # "running" => log[w].created \cap fs = {}

\* C10: progress is monotone within an attempt.  The progress values an
\* attempt reports are within 0..100 and never decrease.
C10_ProgressMonotone ==
  \A w \in Slots :
    LET r == log[w].reported
    IN /\ \A i \in DOMAIN r : r[i] \in 0..100
       /\ \A i \in DOMAIN r : \A k \in DOMAIN r : i <= k => r[i] <= r[k]

\* C11: progress reset on retry.  While an attempt has not yet reported its
\* first checkpoint, the progress of its job reads 0, also when the attempt
\* is a retry of a failed one.
C11_ProgressResetOnRetry ==
  \A w \in DOMAIN workers :
    (workers[w].pc # "idle" /\ log[w].reported = <<>>) =>
       jobs[workers[w].job].progress = 0

\* C14: stall recovery is bounded.  Only the stalled-job check takes an
\* active job whose lock has expired out of the active state; it counts the
\* stall and puts the job back at the head of the wait list while the count
\* is at most maxStalledCount, and fails it otherwise; a failed job is never
\* queued again.
C14_StallRecoveryBounded ==
  [][\A j \in DOMAIN jobs :
       LET stalled == jobs[j].state = "active" /\ jobs[j].lock = 0
       IN /\ jobs[j].stalledCount <= maxStalledCount + 1
          /\ jobs[j].state = "failed" => jobs'[j].state = "failed"
          /\ (stalled /\ jobs'[j].state # "active") =>
                jobs'[j].stalledCount = jobs[j].stalledCount + 1
          /\ jobs'[j].stalledCount # jobs[j].stalledCount =>
                /\ stalled
                /\ jobs'[j].stalledCount = jobs[j].stalledCount + 1
                /\ IF jobs'[j].stalledCount <= maxStalledCount
                   THEN jobs'[j].state = "waiting" /\ wait' = <<j>> \o wait
                   ELSE jobs'[j].state = "failed" /\ wait' = wait]_vars

\* a job has been failed by its third stall, after two recoveries
C14_Witness ==
  \E j \in DOMAIN jobs :
    /\ jobs[j].state = "failed"
    /\ jobs[j].stalledCount = maxStalledCount + 1
    /\ runs[j] = maxStalledCount + 1

\* the slots that execute job j
Executing(j) == {w \in DOMAIN workers : workers[w].job = j}

C13_ArtifactPairConsistent ==
  (/\ \A w \in DOMAIN workers : workers[w].pc = "idle"
   /\ \A j \in DOMAIN jobs : jobs[j].state \in {"completed", "failed"}) =>
    \A t, s \in objects :
      \A u \in {x \in Urls : videoIdOf[x].ok} :
        (/\ t.key = objectKey(videoIdOf[u].value, T_TranscriptTxt)
         /\ s.key = objectKey(videoIdOf[u].value, T_TranscriptJson)) =>
           t.body = plainText(s.body.json)

C16_TerminalImmutable ==
  [][\A j \in DOMAIN jobs :
       jobs[j].state \in {"completed", "failed"} =>
         /\ jobs'[j].state = jobs[j].state
         /\ jobs'[j].returnvalue = jobs[j].returnvalue
         /\ jobs'[j].failedReason = jobs[j].failedReason]_vars

ActiveIn(i) == {j \in DOMAIN jobs : jobs[j].state = "active" /\ jobs[j].lock = i}

\* C19: bounded concurrency.  At most concurrency jobs are active in one
\* worker process, every active job is executed by exactly one of its
\* slots, and a slot executes a job of its own process only.
C19_BoundedConcurrency ==
  /\ \A w \in DOMAIN workers :
       /\ Cardinality(ActiveIn(queueToken(w))) <= concurrency
       /\ workers[w].pc # "idle" => workers[w].job \in ActiveIn(queueToken(w))
  /\ \A j \in DOMAIN jobs :
       jobs[j].state = "active" => Cardinality(Executing(j)) = 1
  /\ Cardinality({j \in DOMAIN jobs : jobs[j].state = "active"})
        <= Cardinality(DOMAIN workers)

\* the pool is busy with one job while another one waits
C19_Witness ==
  /\ wait # <<>>
  /\ \A w \in DOMAIN workers : workers[w].pc # "idle"
  /\ Cardinality({j \in DOMAIN jobs : jobs[j].state = "active"}) = concurrency

\* the temporary directories the execution in slot w works in
TempDirs(w) ==
  {workers[w].workDir, workers[w].tempDir, workers[w].outputDir} \ {<<>>}

\* C20: private temporary directories.  Two executions that are in
\* progress at the same time work in distinct directories, and the
\* directory of an execution in Tier 1 exists until that execution removes
\* it.
C20_PrivateTempDirs ==
  \A w, v \in DOMAIN workers :
    /\ (w # v /\ workers[w].pc # "idle" /\ workers[v].pc # "idle") =>
          TempDirs(w) \cap TempDirs(v) = {}
    /\ workers[w].pc = "tier1" => workers[w].workDir \in fs

statusError(jb) ==
  IF jb.failedReason = <<>>
  THEN <<"U","n","k","n","o","w","n"," ","e","r","r","o","r">>
  ELSE jb.failedReason

(***************************************************************************)
(* child_process.exec: the command line is run by /bin/sh -c               *)
(***************************************************************************)
\* the argument list the shell makes of a command line: quote removal and
\* field splitting of a simple command.  The result is not an argument list
\* (ok = FALSE) when the line holds an operator, an expansion, a comment or
\* an unterminated quotation, that is when a part of it is shell syntax.
\* Pathname expansion leaves a word without matching file as it is.
\* mode: "plain", "single" (quoted) or "double" (quoted); cur: the word in
\* progress, if inWord; the scan goes from one break
\* character to the next
RECURSIVE shellWordsFrom(_, _, _, _, _, _)
shellWordsFrom(s, i0, mode, cur0, inWord0, argv) ==
  LET \* the characters that end a run of ordinary characters in a mode
      BreakChars ==
        CASE mode = "single" -> {"'"}
          [] mode = "double" -> {"\"", "\\", "$", Backquote}
          [] OTHER -> {" ", "\t", "\n", "'", "\"", "\\", "$", Backquote, "#",
                       "|", "&", ";", "<", ">", "(", ")"}
      \* a dollar sign starts an expansion before a name, a positional or
      \* special parameter, ( or {
      StartsExpansion(k) ==
        /\ k <= Len(s)
        /\ \/ IsIdChar(s[k]) /\ s[k] # "-"
           \/ s[k] \in {"(", "{", "?", "$", "!", "#", "@", "*"}
      i == Min({k \in i0..Len(s) : s[k] \in BreakChars} \cup {Len(s) + 1})
      cur == cur0 \o SubSeq(s, i0, i - 1)
      inWord == inWord0 \/ i > i0
  IN
  IF i > Len(s)
  THEN IF mode # "plain" THEN [ok |-> FALSE]
       ELSE [ok |-> TRUE, argv |-> IF inWord THEN Append(argv, cur) ELSE argv]
  ELSE LET c == s[i] IN
  CASE mode = "single" -> shellWordsFrom(s, i + 1, "plain", cur, TRUE, argv)
    [] mode = "double" ->
         IF c = "\"" THEN shellWordsFrom(s, i + 1, "plain", cur, TRUE, argv)
         ELSE IF c = "\\" /\ i < Len(s) /\ s[i + 1] \in {"$", Backquote, "\"", "\\"}
         THEN shellWordsFrom(s, i + 2, mode, Append(cur, s[i + 1]), TRUE, argv)
         ELSE IF c = Backquote \/ (c = "$" /\ StartsExpansion(i + 1))
         THEN [ok |-> FALSE]
         ELSE shellWordsFrom(s, i + 1, mode, Append(cur, c), TRUE, argv)
    [] OTHER ->
         IF c \in {" ", "\t"}
         THEN shellWordsFrom(s, i + 1, mode, <<>>, FALSE,
                             IF inWord THEN Append(argv, cur) ELSE argv)
         ELSE IF c = "'" THEN shellWordsFrom(s, i + 1, "single", cur, TRUE, argv)
         ELSE IF c = "\"" THEN shellWordsFrom(s, i + 1, "double", cur, TRUE, argv)
         ELSE IF c = "\\" /\ i < Len(s) /\ s[i + 1] # "\n"
         THEN shellWordsFrom(s, i + 2, mode, Append(cur, s[i + 1]), TRUE, argv)
         ELSE IF \/ c \in {"|", "&", ";", "<", ">", "(", ")", Backquote, "\n"}
                 \/ c = "$" /\ StartsExpansion(i + 1)
                 \/ c = "#" /\ ~inWord
         THEN [ok |-> FALSE]
         ELSE shellWordsFrom(s, i + 1, mode, Append(cur, c), TRUE, argv)

shellWords(command) == shellWordsFrom(command, 1, "plain", <<>>, FALSE, <<>>)

(***************************************************************************)
(* The helpers called on their own: call holds one call, first pending     *)
(* with its inputs, then done with what the helper did.                    *)
(***************************************************************************)
\* cookie files as validateCookies can find them: absent, unreadable, or
\* readable with an age (Math.round of the hours since mtime) around the two
\* thresholds and a number of cookie lines around the minimum
CookieSnapshots ==
  {[exists |-> FALSE, readable |-> FALSE, ageHours |-> 0, cookieCount |-> 0],
   [exists |-> TRUE, readable |-> FALSE, ageHours |-> 0, cookieCount |-> 0]}
  \cup [exists : {TRUE}, readable : {TRUE},
        ageHours : {0, COOKIES_MAX_AGE_HOURS, COOKIES_MAX_AGE_HOURS + 1,
                    COOKIES_CRITICAL_AGE_HOURS, COOKIES_CRITICAL_AGE_HOURS + 1},
        cookieCount : {0, MIN_COOKIE_COUNT - 1, MIN_COOKIE_COUNT, MIN_COOKIE_COUNT + 1}]

\* urls that pass the check of the routes (extractVideoId finds an ID): a
\* watch URL followed by text with blanks, quotes and shell metacharacters
SubmittedUrls ==
  {U_Watch \o x :
     x \in UNION {[1..k -> {"a", " ", "'", "\"", "(", ")", "$", Backquote, ";", "&", "|"}] :
                     k \in 0..MaxSuffixLen}}

\* messages of errors handed to parseBotDetectionError: a pattern of either
\* list as it is written, in lower case and without its last character,
\* behind the prefix of yt-dlp; a pattern of each list in one message; the
\* messages of the failing commands of the model
ErrorTexts ==
  LET Patterns(list) == {list[k] : k \in DOMAIN list}
      All == Patterns(BOT_DETECTION_PATTERNS) \cup Patterns(COOKIES_EXPIRED_PATTERNS)
      prefix == <<"E","R","R","O","R",":"," ">>
  IN {prefix \o p : p \in All}
     \cup {prefix \o toLowerCase(p) : p \in All}
     \cup {prefix \o SubSeq(p, 1, Len(p) - 1) : p \in All}
     \cup {e \o T_NL \o b : e \in Patterns(COOKIES_EXPIRED_PATTERNS),
                            b \in Patterns(BOT_DETECTION_PATTERNS)}
     \cup {execErrorMessage(ytdlpCommand(f, metadataArgs(U_Watch)), StderrOf(out)) :
            f \in CookieFiles, out \in YtdlpFailures}

\* inputs of extractVideoId, each with the shape in which it is written and
\* the ID it carries: the short link, the watch URL with v=ID among at most
\* MaxParams query parameters in any order, the embed URL, the bare ID, the
\* /v/ URL, a supported shape inside other text; and inputs of no shape:
\* strings without ID, an ID of 10 or 12 characters or with another
\* character, the empty string and values that are no strings
VideoIdInputs ==
  LET Str(s) == [type |-> "string", value |-> s]
      Https == <<"h","t","t","p","s",":","/","/">>
      Www == Https \o <<"w","w","w",".">>
      Ids == {<<"d","Q","w","4","w","9","W","g","X","c","Q">>,
              <<"_","-","0","a","Z","_","-","0","a","Z","_">>}
      Others == {<<"t","=","4","2","s">>, <<"f","e","a","t","u","r","e","=","s","h","a","r","e">>,
                 <<"r","v","=","A","B","C","D","E","F","G","H","I","J","K">>}
      Params(id) == {T_VEq \o id} \cup Others
      Queries(id) ==
        {q \in UNION {[1..n -> Params(id)] : n \in 1..MaxParams} :
           /\ \E i \in DOMAIN q : q[i] = T_VEq \o id
           /\ \A i, j \in DOMAIN q : q[i] = q[j] => i = j}
      RECURSIVE Joined(_)
      Joined(q) == IF Len(q) = 1 THEN q[1] ELSE q[1] \o <<"&">> \o Joined(Tail(q))
      In(s, shape, id) == [input |-> Str(s), shape |-> shape, id |-> id]
  IN UNION {
       {In(Https \o T_YoutuBe \o id, "short", id),
        In(Www \o T_Embed \o id, "embed", id),
        In(id, "bare", id),
        In(Www \o T_SlashV \o id, "v", id),
        In(<<" ">> \o id \o <<"\n">>, "padded", id),
        In(<<"h","t","t","p","s",":","/","/","e","x","a","m","p","l","e",".","c","o","m","/","?","n","e","x","t","=">> \o T_YoutuBe \o id, "inside", id),
        In(Https \o T_YoutuBe \o id \o <<"x">>, "inside", id)}
       \cup {In(Www \o T_WatchQ \o Joined(q), "watch", id) : q \in Queries(id)} :
       id \in Ids}
     \cup {In(s, "none", <<>>) :
             s \in {<<>>, U_Invalid, Https \o T_YoutuBe,
                    <<"d","Q","w","4","w","9","W","g","X","c">>, <<"d","Q","w","4","w","9","W","g","X","c","Q","Q">>,
                    <<"d","Q","w","4","w","9","W","g","X","c","!">>,
                    Www \o T_WatchQ \o T_VEq \o <<"a","b","c">>,
                    <<"n","o","t"," ","a"," ","v","a","l","i","d"," ","u","r","l">>}}
     \cup {[input |-> [type |-> t], shape |-> "none", id |-> <<>>] :
             t \in {"undefined", "object", "number"}}

\* the calls of the helpers that are made
HelperCalls ==
  [fn : {"validateCookies"}, file : CookieSnapshots, done : {FALSE}]
  \cup [fn : {"executeYtdlp"}, file : CookieSnapshots,
        args : {metadataArgs(U_Watch)}, out : {"ok"} \cup YtdlpFailures, done : {FALSE}]
  \cup [fn : {"executeYtdlp"}, file : CookieFiles,
        args : {metadataArgs(u) : u \in SubmittedUrls}
               \cup {subtitleArgs(subsWorkDir(0), u) : u \in SubmittedUrls},
        out : {"ok"}, done : {FALSE}]
  \cup [fn : {"downloadAudioFromYouTube"}, url : SubmittedUrls, done : {FALSE}]
  \cup [fn : {"parseBotDetectionError"}, message : ErrorTexts, done : {FALSE}]
  \cup {[fn |-> "extractVideoId", input |-> x.input, shape |-> x.shape, id |-> x.id,
         done |-> FALSE] : x \in VideoIdInputs}
  \cup [fn : {"uploadTranscript"},
        videoId : {x.id : x \in {y \in VideoIdInputs : y.shape = "bare"}},
        transcript : {<<>>, SampleTranscript, Tail(SampleTranscript)},
        returned : {<<>>}, stored : {<<>>}, done : {FALSE}]

HelperInit ==
  /\ jobs = [j \in JobIds |-> NoJob]
  /\ wait = <<>>
  /\ workers = [w \in Slots |-> IdleWorker]
  /\ log = [w \in Slots |-> NewLog(0)]
  /\ runs = [j \in JobIds |-> 0]
  /\ fs = {}
  /\ objects = {}
  /\ nextUuid = 0
  /\ now = 0
  /\ features = [enableYoutubeTier |-> TRUE, enableWhisperTier |-> TRUE]
  /\ call \in HelperCalls
  /\ whisper = [model |-> "small"]
  /\ transcriptCache = <<>>

\* validateCookies(): existsSync, statSync and readFileSync only read the file
CallValidateCookies ==
  /\ call.fn = "validateCookies" /\ ~call.done
  /\ call' = [call EXCEPT !.done = TRUE] @@
             [fileAfter |-> call.file, result |-> Returned(validateCookies(call.file))]
  /\ UNCHANGED <<jobs, wait, workers, log, runs, fs, objects, nextUuid, now, features, whisper, transcriptCache>>

\* executeYtdlp(args): the command is built and run by the shell; the child
\* process succeeds or fails
CallExecuteYtdlp ==
  /\ call.fn = "executeYtdlp" /\ ~call.done
  /\ \E command \in {ytdlpCommand(call.file, call.args)} :
       call' = [call EXCEPT !.done = TRUE] @@
               [status |-> validateCookies(call.file).status,
                cookieArgs |-> getCookieArgs(call.file),
                command |-> command,
                run |-> shellWords(command),
                result |-> IF call.out = "ok" THEN Returned(<<>>)
                           ELSE [ok |-> FALSE,
                                 error |-> executeYtdlpError(call.file, call.args,
                                                             StderrOf(call.out))]]
  /\ UNCHANGED <<jobs, wait, workers, log, runs, fs, objects, nextUuid, now, features, whisper, transcriptCache>>

\* downloadAudioFromYouTube(videoUrl) up to exec: the command is built and
\* run by the shell
CallDownloadAudio ==
  /\ call.fn = "downloadAudioFromYouTube" /\ ~call.done
  /\ \E command \in {downloadCommand(audioTempDir(nextUuid), call.url)} :
       call' = [call EXCEPT !.done = TRUE] @@
               [outputTemplate |-> audioTempDir(nextUuid) \o <<"/","a","u","d","i","o",".","%","(","e","x","t",")","s">>,
                command |-> command, run |-> shellWords(command)]
  /\ UNCHANGED <<jobs, wait, workers, log, runs, fs, objects, nextUuid, now, features, whisper, transcriptCache>>

\* parseBotDetectionError(error) for an error with a message
CallParseBotDetectionError ==
  /\ call.fn = "parseBotDetectionError" /\ ~call.done
  /\ call' = [call EXCEPT !.done = TRUE] @@
             [result |-> parseBotDetectionError(call.message)]
  /\ UNCHANGED <<jobs, wait, workers, log, runs, fs, objects, nextUuid, now, features, whisper, transcriptCache>>

\* extractVideoId(url): a value that is no string is rejected before any
\* match (!url || typeof url !== 'string')
CallExtractVideoId ==
  /\ call.fn = "extractVideoId" /\ ~call.done
  /\ call' = [call EXCEPT !.done = TRUE] @@
             [result |-> IF call.input.type # "string" THEN Thrown(T_InvalidUrl)
                         ELSE extractVideoId(call.input.value)]
  /\ UNCHANGED <<jobs, wait, workers, log, runs, fs, objects, nextUuid, now, features, whisper, transcriptCache>>

\* the two uploads of an execution, uploadTranscript(videoId,
\* 'transcript.txt', ...) and uploadTranscript(videoId, 'transcript.json',
\* ...), both successful; they are made a second time for the same video and
\* the same segments
UploadTranscripts ==
  /\ call.fn = "uploadTranscript" /\ ~call.done
  /\ LET txt == objectKey(call.videoId, T_TranscriptTxt)
         json == objectKey(call.videoId, T_TranscriptJson)
     IN /\ objects' = putObject(putObject(objects, txt, plainText(call.transcript)),
                                json, [json |-> call.transcript])
        /\ call' = [call EXCEPT !.returned = Append(@, <<publicUrl(txt), publicUrl(json)>>),
                                !.stored = Append(@, objects'),
                                !.done = Len(call.returned) = 1]
  /\ UNCHANGED <<jobs, wait, workers, log, runs, fs, nextUuid, now, features, whisper, transcriptCache>>

HelperNext ==
  \/ UploadTranscripts
  \/ CallExtractVideoId
  \/ CallParseBotDetectionError
  \/ CallValidateCookies
  \/ CallExecuteYtdlp
  \/ CallDownloadAudio

HelperSpec == HelperInit /\ [][HelperNext]_vars

(***************************************************************************)
(* Properties of the failure payload and of the helpers                    *)
(***************************************************************************)
\* C21: the error that the status endpoint returns for a Failed job contains
\* neither the command line of a child process, nor the text a child process
\* wrote to stderr, nor the path of the cookie file.
C21_NoLeakInFailurePayload ==
  \A j \in JobIds :
    jobs[j].state = "failed" =>
      LET error == statusError(jobs[j])
      IN /\ ~includes(error, COOKIES_PATH)
         /\ ~includes(error, T_YtDlp)
         /\ ~includes(error, T_WhisperCmdHead)
         /\ \A kind \in YtdlpFailures \cup WhisperFailures :
              StderrOf(kind) # <<>> => ~includes(error, StderrOf(kind))

\* C22 as stated: for every status other than missing (fresh, stale,
\* critical, invalid, error) executeYtdlp prepends '--cookies <path>' to the
\* arguments of the tool, for missing it prepends nothing.
C22_InjectedUnlessMissing ==
  (call.fn = "executeYtdlp" /\ call.done) =>
    IF call.status # "missing"
    THEN startsWith(call.command,
           T_YtDlp \o <<"-","-","c","o","o","k","i","e","s">> \o T_Space
                                  \o COOKIES_PATH \o T_Space)
    ELSE ~includes(call.command, COOKIES_PATH)

\* C22 amended: executeYtdlp prepends '--cookies <path>' exactly for the
\* statuses fresh, stale and critical; for missing, invalid and error the
\* command holds no cookie argument.
C22_InjectedWhenUsable ==
  (call.fn = "executeYtdlp" /\ call.done) =>
    IF call.status \in {"fresh", "stale", "critical"}
    THEN startsWith(call.command,
           T_YtDlp \o <<"-","-","c","o","o","k","i","e","s">> \o T_Space
                                  \o COOKIES_PATH \o T_Space)
    ELSE call.status \in {"missing", "invalid", "error"}
         /\ ~includes(call.command, COOKIES_PATH)

\* executeYtdlp has run with a cookie file of too few lines
C22_Witness ==
  /\ call.fn = "executeYtdlp" /\ call.done
  /\ call.status = "invalid"
  /\ call.cookieArgs = <<>>
  /\ call.file.ageHours > COOKIES_CRITICAL_AGE_HOURS

\* C23: the shell splits every command line that the pipeline builds from a
\* url or a path (executeYtdlp for the metadata and for the captions with the
\* output template '%(id)s.%(ext)s', the audio download) into exactly the
\* intended arguments, whatever blanks, quotes and shell metacharacters the
\* url holds: nothing is split, merged or taken as shell syntax.
C23_ShellSafeArguments ==
  /\ (call.fn = "executeYtdlp" /\ call.done) =>
       /\ call.run.ok
       /\ call.run.argv = <<<<"y","t","-","d","l","p">>>> \o call.cookieArgs \o call.args
  /\ (call.fn = "downloadAudioFromYouTube" /\ call.done) =>
       /\ call.run.ok
       /\ Len(call.run.argv) = 11
       /\ call.run.argv[10] = call.outputTemplate
       /\ call.run.argv[11] = call.url

\* C24: parseBotDetectionError returns BOT_DETECTION iff the message
\* contains, in any letter case, one of the platform-block patterns;
\* otherwise COOKIES_EXPIRED iff it contains one of the session-expiry
\* patterns; otherwise OTHER.  A message with patterns of both lists is
\* BOT_DETECTION, and the flags of the result follow the code.
C24_FailureClassification ==
  (call.fn = "parseBotDetectionError" /\ call.done) =>
    LET text == call.message
        Contains(p) ==
          \E i \in 1..(Len(text) - Len(p) + 1) :
            \A k \in 1..Len(p) : LowerChar(text[i + k - 1]) = LowerChar(p[k])
        blocked == \E n \in DOMAIN BOT_DETECTION_PATTERNS :
                     Contains(BOT_DETECTION_PATTERNS[n])
        expired == \E n \in DOMAIN COOKIES_EXPIRED_PATTERNS :
                     Contains(COOKIES_EXPIRED_PATTERNS[n])
    IN /\ call.result.code = "BOT_DETECTION" <=> blocked
       /\ call.result.code = "COOKIES_EXPIRED" <=> (~blocked /\ expired)
       /\ call.result.code = "OTHER" <=> (~blocked /\ ~expired)
       /\ call.result.isBotDetection <=> call.result.code = "BOT_DETECTION"
       /\ call.result.isExpiredCookies <=> call.result.code = "COOKIES_EXPIRED"

\* a message with 'Login required' and 'HTTP Error 403' was classified
C24_Witness ==
  /\ call.fn = "parseBotDetectionError" /\ call.done
  /\ includes(call.message, COOKIES_EXPIRED_PATTERNS[3])
  /\ includes(call.message, BOT_DETECTION_PATTERNS[8])
  /\ call.result.code = "BOT_DETECTION"

\* C25: for a cookie file that was read, validateCookies returns invalid
\* whenever it holds fewer than 5 cookie lines, whatever its age (also above
\* 168 hours); with at least 5 lines it returns fresh only if the age is at
\* most 72 hours and critical only if the age is above 168 hours.  So fresh
\* implies an age of at most 72 hours and at least 5 lines.
C25_ClassificationTable ==
  (call.fn = "validateCookies" /\ call.done /\ call.file.exists /\ call.file.readable) =>
    LET status == call.result.value.status
        ageHours == call.file.ageHours
        entryCount == call.file.cookieCount
    IN /\ entryCount < 5 => status = "invalid"
       /\ entryCount >= 5 =>
            /\ status = "fresh" => ageHours <= 72
            /\ status = "critical" => ageHours > 168
            /\ status \in {"fresh", "stale", "critical"}
       /\ status = "fresh" => (ageHours <= 72 /\ entryCount >= 5)

\* a file older than 168 hours with fewer than 5 cookie lines was classified
C25_Witness ==
  /\ call.fn = "validateCookies" /\ call.done
  /\ call.file.readable
  /\ call.file.cookieCount = 4 /\ call.file.ageHours > 168
  /\ call.result.value.status = "invalid"

\* C26 as stated: a cookie file with at least 5 cookie lines whose age is
\* exactly 168 hours is classified critical, not stale.
C26_CriticalAtThreshold ==
  (/\ call.fn = "validateCookies" /\ call.done /\ call.file.readable
   /\ call.file.cookieCount >= 5 /\ call.file.ageHours = 168) =>
    call.result.value.status = "critical"

\* C26 amended: a cookie file with at least 5 cookie lines whose age is
\* exactly 168 hours is classified stale; it is critical from 169 hours on,
\* and stale from 73 hours on.
C26_StaleAtThreshold ==
  (/\ call.fn = "validateCookies" /\ call.done /\ call.file.readable
   /\ call.file.cookieCount >= 5) =>
    /\ call.file.ageHours = 168 => call.result.value.status = "stale"
    /\ call.file.ageHours = 169 => call.result.value.status = "critical"
    /\ call.file.ageHours = 72 => call.result.value.status = "fresh"
    /\ call.file.ageHours = 73 => call.result.value.status = "stale"

\* a file of exactly 168 hours with 5 cookie lines was classified
C26_Witness ==
  /\ call.fn = "validateCookies" /\ call.done /\ call.file.readable
  /\ call.file.cookieCount = 5 /\ call.file.ageHours = 168
  /\ call.result.value.status = "stale"

\* C27: without a cookie file validateCookies returns the status missing and
\* does not throw, getCookieArgs returns no arguments and executeYtdlp runs
\* the tool with the caller's arguments only; the call fails only if the
\* tool fails.  validateCookies leaves the file as it is.
C27_MissingCookiesHarmless ==
  /\ (call.fn = "validateCookies" /\ call.done) =>
       /\ call.fileAfter = call.file
       /\ call.result.ok
       /\ ~call.file.exists => call.result.value.status = "missing"
  /\ (call.fn = "executeYtdlp" /\ call.done /\ ~call.file.exists) =>
       /\ call.status = "missing"
       /\ call.cookieArgs = <<>>
       /\ startsWith(call.command, T_YtDlp \o escapeShellArg(call.args[1]))
       /\ ~includes(call.command, COOKIES_PATH)
       /\ call.out = "ok" => call.result.ok

\* executeYtdlp has run the tool without a cookie file and returned
C27_Witness ==
  /\ call.fn = "executeYtdlp" /\ call.done
  /\ ~call.file.exists
  /\ call.cookieArgs = <<>>
  /\ call.result.ok

\* C28: for every 11-character ID, extractVideoId returns exactly that ID for
\* the short link, for the watch URL that carries v=ID together with other
\* query parameters in any order, for the embed URL and for the bare ID, and
\* whatever it returns is a valid video ID (11 characters of [A-Za-z0-9_-]).
C28_SameIdAcrossShapes ==
  (call.fn = "extractVideoId" /\ call.done) =>
    /\ call.shape \in {"short", "watch", "embed", "bare"} =>
         (call.result.ok /\ call.result.value = call.id)
    /\ call.result.ok =>
         (Len(call.result.value) = 11 /\ \A i \in 1..11 : IsIdChar(call.result.value[i]))

\* C29 as stated: for every input that is not a short link, a watch URL, an
\* embed URL or a bare 11-character ID, the empty string and values that are
\* no strings included, extractVideoId throws instead of returning an ID.
C29_RejectsOtherShapes ==
  (call.fn = "extractVideoId" /\ call.done) =>
    (call.shape \notin {"short", "watch", "embed", "bare"} => ~call.result.ok)

\* C29 amended: extractVideoId throws 'Invalid URL: must be a non-empty
\* string' for the empty string and for values that are no strings, and
\* 'Could not extract video ID from URL: <trimmed input>' for a string that
\* holds no supported shape; it returns the ID also for the /v/ URL, for
\* an input with white space around it and for a supported shape inside
\* other text.
C29_RejectsInputWithoutShape ==
  (call.fn = "extractVideoId" /\ call.done) =>
    /\ call.shape = "none" =>
         /\ ~call.result.ok
         /\ call.result.message =
              IF call.input.type # "string" \/ call.input = [type |-> "string", value |-> <<>>]
              THEN T_InvalidUrl
              ELSE T_NoVideoId \o trim(call.input.value)
    /\ call.shape \in {"v", "padded", "inside"} =>
         (call.result.ok /\ call.result.value = call.id)

\* a string of 12 ID characters was rejected
C29_Witness ==
  /\ call.fn = "extractVideoId" /\ call.done
  /\ call.shape = "none" /\ call.input.type = "string"
  /\ Len(call.input.value) = 12
  /\ ~call.result.ok

\* C30: storing the transcript of the same video with the same segments a
\* second time leaves the bucket as the first time, with one object under
\* each of the keys transcripts/<videoId>/transcript.txt and .../transcript.json,
\* and returns the same two URLs, which are those that getTranscriptUrl
\* gives for the video ID and the file name.
C30_IdempotentMaterialization ==
  (call.fn = "uploadTranscript" /\ Len(call.returned) >= 1) =>
    LET n == Len(call.returned)
        urls == <<getTranscriptUrl(call.videoId, T_TranscriptTxt),
                  getTranscriptUrl(call.videoId, T_TranscriptJson)>>
    IN /\ \A k \in 1..n : call.returned[k] = urls
       /\ \A k \in 1..n : call.stored[k] = call.stored[1]
       /\ objects = call.stored[1]
       /\ Cardinality(objects) = 2
       /\ \E txt, json \in objects :
            /\ publicUrl(txt.key) = urls[1] /\ txt.body = plainText(call.transcript)
            /\ publicUrl(json.key) = urls[2] /\ json.body = [json |-> call.transcript]

\* the same transcript was stored twice
C30_Witness ==
  /\ call.fn = "uploadTranscript" /\ call.done
  /\ Len(call.returned) = 2
  /\ call.transcript = SampleTranscript
  /\ call.stored[2] = objects
(***************************************************************************)
(* The HTTP API of server.js.  A request is handled in one step: the       *)
(* middleware mounted before the routers, then the route handler.  call    *)
(* keeps the request and the response that was sent for it.  An            *)
(* Authorization header is the list of its parts, authHeader.split(' ');   *)
(* the empty list is a request without the header.                         *)
(***************************************************************************)
\* app.use(optionalAuthMiddleware): marks the request as authenticated when
\* it carries 'Bearer <config.api.keySecret>' and calls next() in any case
optionalAuthMiddleware(req) ==
  LET parts == req.authorization
  IN [req EXCEPT !.authenticated =
        /\ parts # <<>>
        /\ Len(parts) = 2 /\ parts[1] = "Bearer"
        /\ parts[2] = "dev-secret"]

\* variant: a job delayed by backoff is reported as processing
statusResponse_delayedProcessing(jobId) ==
  IF jobId \notin DOMAIN jobs \/ jobs[jobId].state = "none"
  THEN [status |-> 404, body |-> [code |-> "JOB_NOT_FOUND", jobId |-> jobId]]
  ELSE LET job == jobs[jobId]
           state == job.state
       IN [status |-> 200,
           body |->
             IF state = "completed"
             THEN [jobId |-> jobId, status |-> "complete",
                   videoId |-> job.returnvalue.videoId,
                   resultsUrl |-> <<"/","a","p","i","/","t","r","a","n","s","c","r","i","p","t","/">>
                                    \o job.returnvalue.videoId]
             ELSE IF state = "failed"
             THEN [jobId |-> jobId, status |-> "failed", error |-> statusError(job),
                   attempts |-> job.attemptsMade, maxAttempts |-> job.attempts]
             ELSE IF state \in {"active", "delayed"}
             THEN [jobId |-> jobId, status |-> "processing", state |-> state,
                   progress |-> job.progress]
             ELSE [jobId |-> jobId, status |-> "queued", state |-> state]]

\* the response of GET /api/status/:jobId
statusResponse(jobId) ==
  IF jobId \notin DOMAIN jobs \/ jobs[jobId].state = "none"
  THEN [status |-> 404, body |-> [code |-> "JOB_NOT_FOUND", jobId |-> jobId]]
  ELSE LET job == jobs[jobId]
           state == job.state
       IN [status |-> 200,
           body |->
             IF state = "completed"
             THEN [jobId |-> jobId, status |-> "complete",
                   videoId |-> job.returnvalue.videoId,
                   resultsUrl |-> <<"/","a","p","i","/","t","r","a","n","s","c","r","i","p","t","/">>
                                    \o job.returnvalue.videoId]
             ELSE IF state = "failed"
             THEN [jobId |-> jobId, status |-> "failed", error |-> statusError(job),
                   attempts |-> job.attemptsMade, maxAttempts |-> job.attempts]
             ELSE IF state = "active"
             THEN [jobId |-> jobId, status |-> "processing", state |-> state,
                   progress |-> job.progress]
             ELSE [jobId |-> jobId, status |-> "queued", state |-> state]]

\* GET /api/status/:jobId
GetStatus(req) ==
  /\ call' = [fn |-> "getStatus", req |-> optionalAuthMiddleware(req)]
               @@ statusResponse(req.jobId)
  /\ UNCHANGED <<jobs, wait, workers, log, runs, fs, objects, nextUuid, now, features,
                 whisper, transcriptCache>>

\* POST /api/transcribe.  limited: the counter transcribeRateLimiter keeps
\* for the client's address has reached config.api.rateLimitMaxRequests;
\* requests whose Authorization header starts with 'Bearer ' skip the limiter
PostTranscribe(req, limited) ==
  LET r == optionalAuthMiddleware(req)
      url == req.url
      skip == Len(req.authorization) >= 2 /\ req.authorization[1] = "Bearer"
      respond(status, body) ==
        call' = [fn |-> "postTranscribe", req |-> r, status |-> status, body |-> body]
  IN /\ IF limited /\ ~skip
        THEN /\ respond(429, [code |-> "RATE_LIMIT_EXCEEDED"])
             /\ UNCHANGED <<jobs, wait>>
        ELSE IF url.type # "string" \/ url.value = <<>>
        THEN /\ respond(400, [code |-> "INVALID_URL"])
             /\ UNCHANGED <<jobs, wait>>
        ELSE IF ~videoIdOf[url.value].ok
        THEN /\ IF includes(videoIdOf[url.value].message, SubSeq(T_NoVideoId, 1, 26))
                THEN respond(400, [code |-> "INVALID_YOUTUBE_URL"])
                ELSE respond(500, [code |-> "INTERNAL_ERROR"])
             /\ UNCHANGED <<jobs, wait>>
        ELSE /\ queueAdd(url.value, req.forceWhisper)
             /\ respond(202,
                  [jobId |-> Min({k \in DOMAIN jobs : jobs[k].state = "none"}),
                   videoId |-> videoIdOf[url.value].value, status |-> "queued"])
     /\ UNCHANGED <<workers, log, runs, fs, objects, nextUuid, now, features,
                    whisper, transcriptCache>>

\* transcriptionQueue.getJobs(['completed', 'failed'], 0, -1): the completed
\* jobs, the one that finished last first, then the failed ones; the handler
\* takes the first job whose returnvalue is for videoId
foundJob(videoId) ==
  LET matching == {j \in DOMAIN jobs :
                     /\ jobs[j].state = "completed"
                     /\ jobs[j].returnvalue.videoId = videoId
                     /\ jobs[j].returnvalue.transcriptUrl # <<>>}
  IN IF matching = {} THEN 0
     ELSE CHOOSE j \in matching :
            \A k \in matching : jobs[k].finishedOn <= jobs[j].finishedOn

\* GET /api/transcript/:videoId
GetTranscript(req) ==
  /\ \E found \in {foundJob(req.videoId)} :
       LET videoId == req.videoId
           cached == videoId \in DOMAIN transcriptCache
           respond(status, body) ==
             call' = [fn |-> "getTranscript", req |-> optionalAuthMiddleware(req),
                      status |-> status, body |-> body]
       IN IF ~bareMatch(videoId)
          THEN /\ respond(400, [code |-> "INVALID_VIDEO_ID"])
               /\ UNCHANGED transcriptCache
          ELSE IF cached
          THEN /\ respond(200, transcriptCache[videoId])
               /\ UNCHANGED transcriptCache
          ELSE IF found = 0
          THEN /\ respond(404, [code |-> "TRANSCRIPT_NOT_FOUND"])
               /\ UNCHANGED transcriptCache
          ELSE /\ respond(200, jobs[found].returnvalue)
               /\ transcriptCache' = (videoId :> jobs[found].returnvalue) @@ transcriptCache
  /\ UNCHANGED <<jobs, wait, workers, log, runs, fs, objects, nextUuid, now, features,
                 whisper>>

\* Authorization headers of the requests: none, the configured key, another
\* key
Authorizations == {<<>>, <<"Bearer", "dev-secret">>, <<"Bearer", "wrong">>}

\* one server process with the default configuration
ApiInit ==
  /\ jobs = [j \in JobIds |-> NoJob]
  /\ wait = <<>>
  /\ workers = [w \in Slots |-> IdleWorker]
  /\ log = [w \in Slots |-> NewLog(0)]
  /\ runs = [j \in JobIds |-> 0]
  /\ fs = {}
  /\ objects = {}
  /\ nextUuid = 0
  /\ now = 0
  /\ features = [enableYoutubeTier |-> TRUE, enableWhisperTier |-> TRUE]
  /\ call = [fn |-> "none"]
  /\ whisper = [model |-> "small"]
  /\ transcriptCache = <<>>

\* the requests of the clients and the steps of the queue and of the worker
ApiNext ==
  \/ \E a \in Authorizations,
        url \in {[type |-> "string", value |-> u] : u \in Urls \cup {<<>>}}
              \cup {[type |-> "undefined"], [type |-> "number"]} :
       \E limited \in IF a = <<>> THEN BOOLEAN ELSE {FALSE},
          forceWhisper \in IF url.type = "string" /\ url.value = U_Watch
                           THEN BOOLEAN ELSE {FALSE} :
         PostTranscribe([authorization |-> a, authenticated |-> FALSE, url |-> url,
                         forceWhisper |-> forceWhisper], limited)
  \/ \E a \in Authorizations, jobId \in JobIds \cup {0} :
       GetStatus([authorization |-> a, authenticated |-> FALSE, jobId |-> jobId])
  \/ \E a \in Authorizations, v \in {videoIdOf[U_Watch].value, U_Invalid} :
       GetTranscript([authorization |-> a, authenticated |-> FALSE, videoId |-> v])
  \/ \E j \in JobIds : PromoteDelayed(j)
  \/ \E w \in Slots : ProcessJob(w)
  \/ \E w \in Slots : MetadataReturns(w)
  \/ \E w \in Slots : Tier1Returns(w)
  \/ \E w \in Slots : T1UploadTxt(w)
  \/ \E w \in Slots : T1UploadJson(w)
  \/ \E w \in Slots : DownloadReturns(w)
  \/ \E w \in Slots : TranscribeReturns(w)
  \/ \E w \in Slots : T2UploadTxt(w)
  \/ \E w \in Slots : T2UploadJson(w)

ApiSpec == ApiInit /\ [][ApiNext]_vars

\* the test script polls GET /api/status/<jobId> every five seconds, without
\* an Authorization header
FairApiSpec ==
  ApiSpec /\ \A j \in JobIds :
    WF_vars(GetStatus([authorization |-> <<>>, authenticated |-> FALSE, jobId |-> j]))

\* two jobs for the same video, both forced to Tier 2, and a client that
\* fetches the transcript of the video and of a video without a job
CacheNext ==
  \/ PairNext
  \/ \E v \in {videoIdOf[U_Watch].value,
                <<"A","B","C","D","E","F","G","H","I","J","K">>} :
       GetTranscript([authorization |-> <<>>, authenticated |-> FALSE, videoId |-> v])

CacheSpec == PairInit /\ [][CacheNext]_vars

\* one worker process with both tiers enabled; WHISPER_MODEL is 'small' (the
\* default) or 'base'
ConfigInit ==
  /\ jobs = [j \in JobIds |-> NoJob]
  /\ wait = <<>>
  /\ workers = [w \in Slots |-> IdleWorker]
  /\ log = [w \in Slots |-> NewLog(0)]
  /\ runs = [j \in JobIds |-> 0]
  /\ fs = {}
  /\ objects = {}
  /\ nextUuid = 0
  /\ now = 0
  /\ features = [enableYoutubeTier |-> TRUE, enableWhisperTier |-> TRUE]
  /\ call = [fn |-> "none"]
  /\ whisper \in [model : {"small", "base"}]
  /\ transcriptCache = <<>>

ConfigSpec == ConfigInit /\ [][Next]_vars

(***************************************************************************)
(* Properties of the result envelope, the HTTP API and the failure paths   *)
(***************************************************************************)
\* C31: the result of every completed job is either (tier 1, source
\* 'youtube-native', confidence 0.98) or (tier 2, confidence 0.96, a source
\* that names config.whisper.model, the speech model that was used), and
\* its videoId is the id extracted from the job's URL.
C31_EnvelopeConsistent ==
  \A j \in DOMAIN jobs :
    jobs[j].state = "completed" =>
      LET r == jobs[j].returnvalue
          named == CASE whisper.model = "small" -> {"whisper-small", "faster-whisper-small"}
                     [] whisper.model = "base" -> {"whisper-base", "faster-whisper-base"}
      IN /\ \/ r.tier = 1 /\ r.source = "youtube-native" /\ r.confidence = 98
            \/ r.tier = 2 /\ r.confidence = 96 /\ r.source \in named
         /\ r.videoId = videoIdOf[jobs[j].url].value

\* C32: a request to POST /api/transcribe, GET /api/status/:jobId or
\* GET /api/transcript/:videoId that carries no Authorization header or not
\* the configured Bearer token is answered with 401, and it neither adds a
\* job to the queue nor returns data of a job.
C32_UnauthenticatedRejected ==
  [][(/\ call' # call
      /\ call'.req.authorization # <<"Bearer", "dev-secret">>)
     => /\ call'.status = 401
        /\ jobs' = jobs /\ wait' = wait]_vars

C34_PollingContract ==
  \A j \in JobIds :
    /\ (jobs[j].state = "completed") ~>
         (/\ call.fn = "getStatus" /\ call.req.jobId = j
          /\ call.status = 200 /\ call.body.status = "completed"
          /\ "transcriptUrl" \in DOMAIN call.body)
    /\ (jobs[j].state = "failed") ~>
         (/\ call.fn = "getStatus" /\ call.req.jobId = j
          /\ call.status = 200 /\ call.body.status = "failed")

\* C35: an attempt in which an upload to the bucket fails, in Tier 1 or in
\* Tier 2, makes no further call and fails with the storage error; the job
\* is queued again while attemptsMade < maxAttempts and Failed otherwise.
C35_StorageFailureFailsAttempt ==
  \A w \in Slots :
    LET lg == log[w]
    IN \A i \in 1..Len(lg.outs) :
         (lg.calls[i] \in {"upload_txt", "upload_json"} /\ lg.outs[i] = "error") =>
           /\ Len(lg.calls) = i
           /\ lg.outcome = "failed"
           /\ jobs[lg.job].failedReason = UploadError.message
           /\ IF jobs[lg.job].attemptsMade < maxAttempts
              THEN jobs[lg.job].state \in {"delayed", "waiting"}
              ELSE jobs[lg.job].state = "failed"

\* C36: an attempt in which a child process (metadata fetch, caption
\* extraction, audio download, speech-to-text) is killed at its timeout
\* makes no further call and fails; the job is queued again while
\* attemptsMade < maxAttempts and is Failed only otherwise.
C36_TimeoutFailsAttempt ==
  \A w \in Slots :
    LET lg == log[w]
    IN lg.timeouts # {} =>
         /\ lg.calls[Len(lg.calls)] \in lg.timeouts
         /\ lg.outcome = "failed"
         /\ IF jobs[lg.job].attemptsMade < maxAttempts
            THEN jobs[lg.job].state \in {"delayed", "waiting"}
            ELSE jobs[lg.job].state = "failed"

\* C36 (amended): a timeout of the metadata fetch, of the audio download or
\* of the speech-to-text call ends the attempt as failed, and the job is
\* queued again while attemptsMade < maxAttempts; a timeout of the caption
\* extraction is taken as "no captions": the same attempt goes on with the
\* audio download if the Whisper tier is enabled and fails otherwise.  A job
\* is never Failed while attemptsMade < maxAttempts.
C36_TimeoutRetriedOrFallback ==
  \A w \in Slots :
    LET lg == log[w]
        n == Len(lg.calls)
    IN /\ lg.timeouts \cap {"metadata", "download", "transcribe"} # {} =>
            /\ lg.calls[n] \in lg.timeouts
            /\ lg.outcome = "failed"
            /\ IF jobs[lg.job].attemptsMade < maxAttempts
               THEN jobs[lg.job].state \in {"delayed", "waiting"}
               ELSE jobs[lg.job].state = "failed"
       /\ "tier1" \in lg.timeouts =>
            IF features.enableWhisperTier
            THEN n >= 3 /\ lg.calls[3] = "download"
            ELSE /\ n = 2 /\ lg.outcome = "failed"
                 /\ jobs[lg.job].failedReason = T_WhisperDisabled
       /\ lg.job # 0 /\ jobs[lg.job].state = "failed" =>
            jobs[lg.job].attemptsMade = maxAttempts

\* the caption extraction timed out and the same attempt completed the job
\* with Tier 2
C36_Witness ==
  \E w \in Slots :
    /\ log[w].timeouts = {"tier1"}
    /\ log[w].outcome = "completed"
    /\ jobs[log[w].job].state = "completed"
    /\ jobs[log[w].job].returnvalue.tier = 2

\* C37: a 200 response of GET /api/transcript/:videoId for video V carries
\* the result envelope of the job for V that completed last, and the
\* response is 404 when no completed job for V exists.
C37_TranscriptFresh ==
  [][(call' # call /\ call'.fn = "getTranscript") =>
       LET v == call'.req.videoId
           done == {j \in DOMAIN jobs :
                      jobs[j].state = "completed" /\ jobs[j].returnvalue.videoId = v}
           latest == {j \in done : \A k \in done : jobs[k].finishedOn <= jobs[j].finishedOn}
       IN /\ call'.status = 200 =>
               call'.body \in {jobs[j].returnvalue : j \in latest}
          /\ (done = {} /\ bareMatch(v)) => call'.status = 404]_vars

C39_CompletedHasSegments ==
  [][\A j \in DOMAIN jobs :
       (jobs[j].state # "completed" /\ jobs'[j].state = "completed") =>
         \E o \in objects' :
           /\ o.key = objectKey(jobs'[j].returnvalue.videoId, T_TranscriptJson)
           /\ Len(o.body.json) >= 1]_vars

====
